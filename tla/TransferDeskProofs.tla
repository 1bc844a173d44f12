-------------------------- MODULE TransferDeskProofs --------------------------
(***************************************************************************)
(* For any documents, profiles, routes and connections, any user and any   *)
(* connection bar: nothing disturbs a transfer under way, the profile      *)
(* presented is that of the document presented, and what is sent and       *)
(* remembered is what was shown.                                           *)
(*                                                                         *)
(* That a transfer keeps its route needs to know that a link presented as  *)
(* connected has an open device behind it, and that there is no device     *)
(* without a controller (Linked).  What was shown when the user clicked    *)
(* reaches the worker late: which command of the page is where (Single),   *)
(* what each snapshot on its way may still say (Views), and what a command *)
(* was given when it was asked for (Asked).                                *)
(***************************************************************************)
EXTENDS TransferDesk, SequenceTheorems, TLAPS

Fields == {"source", "doc", "receiving", "match", "progress", "manual", "saved", "last"}

IsSession(s) == s = [f \in Fields |-> s[f]]

-----------------------------------------------------------------------------
(* The methods of the session. *)

(* A session with one field changed is a session.                            *)
LEMMA Changed ==
  ASSUME NEW s, IsSession(s), NEW f \in Fields, NEW value
  PROVE  /\ IsSession([s EXCEPT ![f] = value])
         /\ [s EXCEPT ![f] = value][f] = value
         /\ \A g \in Fields \ {f} : [s EXCEPT ![f] = value][g] = s[g]
BY DEF IsSession

(* What a capture or a change of choices presents fits the document.         *)
LEMMA Evaluated ==
  ASSUME NEW s, IsSession(s)
  PROVE  /\ IsSession(Evaluate(s)) /\ Matched(Evaluate(s))
         /\ \A f \in Fields \ {"match", "last"} : Evaluate(s)[f] = s[f]
         /\ s.doc # <<>> => Evaluate(s).last = Evaluate(s).match.overridden
<1> DEFINE result == Match(Head(s.doc), s.saved, s.manual)
           one == [s EXCEPT !.match = NoResult]
           two == [s EXCEPT !.match = result]
           three == [two EXCEPT !.last = result.overridden]
<1>1. /\ IsSession(one) /\ one.match = NoResult
      /\ \A f \in Fields \ {"match"} : one[f] = s[f]
  BY DEF IsSession, Fields
<1>2. /\ IsSession(two) /\ two.match = result
      /\ \A f \in Fields \ {"match"} : two[f] = s[f]
  BY DEF IsSession, Fields
<1>3. /\ IsSession(three) /\ three.match = result /\ three.last = result.overridden
      /\ \A f \in Fields \ {"match", "last"} : three[f] = s[f]
  <2> HIDE DEF two
  <2> QED BY <1>2 DEF IsSession, Fields
<1>4. Evaluate(s) = IF s.doc = <<>> THEN one ELSE three
  BY DEF Evaluate
<1>5. CASE s.doc = <<>>
  <2>1. Evaluate(s) = one
    BY <1>4, <1>5
  <2>2. one.doc = <<>>
    BY <1>1, <1>5 DEF Fields
  <2> QED BY <1>1, <2>1, <2>2 DEF Matched
<1>6. CASE s.doc # <<>>
  <2>1. Evaluate(s) = three
    BY <1>4, <1>6
  <2>2. three.doc = s.doc /\ three.saved = s.saved /\ three.manual = s.manual
    BY <1>3 DEF Fields
  <2> QED BY <1>3, <1>6, <2>1, <2>2 DEF Matched
<1> QED BY <1>5, <1>6

Good(s) == IsSession(s) /\ Matched(s)

SameDocument(s, t) == t.doc = s.doc /\ t.receiving = s.receiving

(* Progress and choices leave the document alone.                            *)
LEMMA DocumentKept ==
  ASSUME NEW s, Good(s)
  PROVE  /\ \A p : Good(SetProgress(s, p)) /\ SameDocument(s, SetProgress(s, p))
         /\ Good(Synchronized(s)) /\ SameDocument(s, Synchronized(s))
         /\ \A p : Good(SelectedTemporary(s, p)) /\ SameDocument(s, SelectedTemporary(s, p))
         /\ Good(Remembered(s)) /\ SameDocument(s, Remembered(s))
<1>1. ASSUME NEW p PROVE Good(SetProgress(s, p)) /\ SameDocument(s, SetProgress(s, p))
  <2> DEFINE t == SetProgress(s, p)
  <2>1. IsSession(t) /\ \A f \in Fields \ {"progress"} : t[f] = s[f]
    BY Changed DEF Good, SetProgress, Fields
  <2>2. t.doc = s.doc /\ t.receiving = s.receiving /\ t.match = s.match
        /\ t.saved = s.saved /\ t.manual = s.manual
    BY <2>1 DEF Fields
  <2> HIDE DEF t
  <2> QED BY <2>1, <2>2 DEF Good, Matched, SameDocument, t
<1>2. Good(Synchronized(s)) /\ SameDocument(s, Synchronized(s))
  BY <1>1 DEF Synchronized, SameDocument
<1>3. ASSUME NEW p PROVE Good(SelectedTemporary(s, p)) /\ SameDocument(s, SelectedTemporary(s, p))
  <2> DEFINE t == [s EXCEPT !.manual = p]
  <2>1. IsSession(t) /\ \A f \in Fields \ {"manual"} : t[f] = s[f]
    BY Changed DEF Good, Fields
  <2> HIDE DEF t
  <2>2. IsSession(Evaluate(t)) /\ Matched(Evaluate(t)) /\ SameDocument(t, Evaluate(t))
    BY <2>1, Evaluated DEF Fields, SameDocument
  <2> QED BY <2>1, <2>2 DEF Good, SameDocument, SelectedTemporary, Fields, t
<1>4. Good(Remembered(s)) /\ SameDocument(s, Remembered(s))
  <2> DEFINE t == [s EXCEPT !.saved = s.last]
  <2>1. IsSession(t) /\ \A f \in Fields \ {"saved"} : t[f] = s[f]
    BY Changed DEF Good, Fields
  <2> HIDE DEF t
  <2>2. IsSession(Evaluate(t)) /\ Matched(Evaluate(t)) /\ SameDocument(t, Evaluate(t))
    BY <2>1, Evaluated DEF Fields, SameDocument
  <2> QED BY <2>1, <2>2 DEF Good, SameDocument, Remembered, Fields, t
<1> QED BY <1>1, <1>2, <1>3, <1>4

(* A document that is replaced, extended or cleared has its own profile.     *)
LEMMA DocumentChanged ==
  ASSUME NEW s, Good(s), NEW doc
  PROVE  /\ Good(Loaded(s, doc)) /\ Good(BegunReceive(s)) /\ Good(Cleared(s))
         /\ Good(Finished(s, doc)) /\ Good(Consumed(s, doc))
         /\ ~s.receiving => Consumed(s, doc) = s
<1> USE DEF Good
<1>1. Good(Loaded(s, doc))
  <2> DEFINE one == [s EXCEPT !.source = "imported"]
             two == [one EXCEPT !.doc = doc]
  <2>1. IsSession(one)
    BY Changed DEF Fields
  <2> HIDE DEF one
  <2>2. IsSession(two)
    BY <2>1, Changed DEF Fields
  <2> HIDE DEF two
  <2>3. Good(Evaluate(two))
    BY <2>2, Evaluated
  <2>4. Loaded(s, doc) = SetProgress(Evaluate(two), "idle")
    BY DEF Loaded, ReplaceDocument, SetProgress, one, two
  <2> QED BY <2>3, <2>4, DocumentKept
<1>2. ASSUME NEW t, IsSession(t), t.doc = <<>>, t.match = NoResult
      PROVE  Good(t)
  BY <1>2 DEF Matched
<1>3. Good(BegunReceive(s)) /\ Good(Cleared(s))
  <2> DEFINE one == [s EXCEPT !.doc = <<>>]
             two == [one EXCEPT !.match = NoResult]
             three == [two EXCEPT !.progress = "idle"]
             begun == [three EXCEPT !.source = "received"]
             four == [begun EXCEPT !.receiving = TRUE]
  <2>1. IsSession(one) /\ one.doc = <<>>
    BY Changed DEF Fields
  <2> HIDE DEF one
  <2>2. IsSession(two) /\ two.doc = <<>> /\ two.match = NoResult
    BY <2>1 DEF IsSession, Fields
  <2> HIDE DEF two
  <2>3. IsSession(three) /\ three.doc = <<>> /\ three.match = NoResult
    BY <2>2, Changed DEF Fields
  <2> HIDE DEF three
  <2>4. IsSession(begun) /\ begun.doc = <<>> /\ begun.match = NoResult
    BY <2>3, Changed DEF Fields
  <2> HIDE DEF begun
  <2>5. IsSession(four) /\ four.doc = <<>> /\ four.match = NoResult
    BY <2>4, Changed DEF Fields
  <2>6. BegunReceive(s) = four
    BY DEF BegunReceive, one, two, three, begun
  <2> DEFINE c1 == [s EXCEPT !.source = "none"]
             c2 == [c1 EXCEPT !.doc = <<>>]
             c3 == [c2 EXCEPT !.match = NoResult]
             c4 == [c3 EXCEPT !.progress = "idle"]
  <2>7. IsSession(c1)
    BY Changed DEF Fields
  <2> HIDE DEF c1
  <2>8. IsSession(c2) /\ c2.doc = <<>>
    BY <2>7 DEF IsSession, Fields
  <2> HIDE DEF c2
  <2>9. IsSession(c3) /\ c3.doc = <<>> /\ c3.match = NoResult
    BY <2>8 DEF IsSession, Fields
  <2> HIDE DEF c3
  <2>10. IsSession(c4) /\ c4.doc = <<>> /\ c4.match = NoResult
    BY <2>9, Changed DEF Fields
  <2>11. Cleared(s) = c4
    BY DEF Cleared, c1, c2, c3
  <2> HIDE DEF four, c4
  <2> QED BY <1>2, <2>5, <2>6, <2>10, <2>11
<1>4. Good(Finished(s, doc))
  <2> DEFINE one == [s EXCEPT !.doc = @ \o doc]
             two == [one EXCEPT !.receiving = FALSE]
  <2>1. IsSession(one)
    BY Changed DEF Fields
  <2> HIDE DEF one
  <2>2. IsSession(two)
    BY <2>1, Changed DEF Fields
  <2> HIDE DEF two
  <2> QED BY <2>2, Evaluated DEF Finished, one, two
<1>5. Good(Consumed(s, doc)) /\ (~s.receiving => Consumed(s, doc) = s)
  <2> DEFINE one == [s EXCEPT !.doc = @ \o doc]
  <2>1. IsSession(one)
    BY Changed DEF Fields
  <2> HIDE DEF one
  <2>2. Good(Evaluate(one))
    BY <2>1, Evaluated
  <2> QED BY <2>2 DEF Consumed, one
<1> QED BY <1>1, <1>3, <1>4, <1>5

-----------------------------------------------------------------------------
(* The invariant. *)

(* What the controller presents, and what the transport holds. *)
Linked ==
  /\ device = [state |-> device.state, tx |-> device.tx]
  /\ link = [state |-> link.state, rx |-> link.rx, tx |-> link.tx]
  /\ link.state = "connected" => device.state = "open" /\ device.tx = link.tx
  /\ link.state = "none" => device.state = "closed"

IInv == Good(session) /\ Linked /\ TransferIsolated

(* A session that a few commands made, over an open connection.              *)
LEMMA InitIInv == Init => IInv
<1> SUFFICES ASSUME Init PROVE IInv
  OBVIOUS
<1>1. Good(session)
  <2>1. session \in Start
    BY DEF Init
  <2>2. SessionType(session) /\ Matched(session)
    BY <2>1, DeskAssumption
  <2>3. DOMAIN NewSession = Fields
    BY DEF NewSession, Fields
  <2>4. IsSession(session)
    BY <2>2, <2>3 DEF SessionType, IsSession
  <2> QED BY <2>2, <2>4 DEF Good
<1>2. Linked
  BY DEF Init, Linked
<1>3. TransferIsolated
  BY DEF Init, AbsInit, TransferIsolated
<1> QED BY <1>1, <1>2, <1>3 DEF IInv

-----------------------------------------------------------------------------
(* The steps. *)

(* A step that leaves the connection and a transfer alone.                   *)
LEMMA Quiet ==
  ASSUME IInv, UNCHANGED <<link, device, attempt>>, Good(session'),
         phase' = "active" =>
           phase = "active" /\ total' = total /\ SameDocument(session, session')
  PROVE  IInv'
<1>1. Linked'
  BY DEF IInv, Linked
<1>2. TransferIsolated'
  BY DEF IInv, TransferIsolated, SameDocument
<1> QED BY <1>1, <1>2 DEF IInv, Good, IsSession, Matched

(* An attempt that has ended is destroyed, or nothing happens to it.         *)
LEMMA Reaped ==
  ASSUME Reap
  PROVE  phase' = "active" => phase = "active" /\ total' = total
BY DEF Reap, Destroyed, absVars

(* What a command drains first reaches no document that is being sent.       *)
LEMMA Drained ==
  ASSUME IInv, NEW batch
  PROVE  /\ Good(Consumed(session, batch))
         /\ phase = "active" => Consumed(session, batch) = session
BY DocumentChanged DEF IInv, TransferIsolated

(* A command that refuses, or changes a session that is not being sent.      *)
LEMMA PerformKeeps ==
  ASSUME IInv, NEW name, NEW allowed, NEW next, Perform(name, allowed, next),
         allowed => Good(next) /\ (phase = "active" => SameDocument(session, next))
  PROVE  IInv'
<1>1. UNCHANGED <<link, device, attempt>> /\ Reap
  BY DEF Perform
<1>2. CASE allowed
  BY <1>1, <1>2, Quiet, Reaped DEF Perform
<1>3. CASE ~allowed
  <2>1. session' = Synchronized(session)
    BY <1>3 DEF Perform
  <2> QED BY <1>1, <2>1, DocumentKept, Quiet, Reaped DEF IInv
<1> QED BY <1>2, <1>3

(* The commands that change the document, and those that change a choice.    *)
LEMMA SessionCommandsKeep ==
  ASSUME IInv,
         \/ \E ok \in BOOLEAN : LoadSysex(ok) \/ SaveReceivedSysex(ok)
         \/ LoadSysexDocument \/ ClearSysex
         \/ SelectTemporaryProfile \/ RememberManualProfile
  PROVE  IInv'
<1> DEFINE s == Synchronized(session)
<1>1. Good(s) /\ SameDocument(session, s)
  BY DocumentKept DEF IInv
<1> HIDE DEF s
<1>2. CASE \E ok \in BOOLEAN : LoadSysex(ok)
  <2>1. PICK ok \in BOOLEAN : LoadSysex(ok)
    BY <1>2
  <2> DEFINE allowed == ~Transferring /\ CanLoadFile(s) /\ ok
  <2>2. Perform("load", allowed, Loaded(s, Argument))
    BY <2>1 DEF LoadSysex, s
  <2>3. allowed => phase # "active" /\ Good(Loaded(s, Argument))
    BY <1>1, DocumentChanged DEF Transferring
  <2> HIDE DEF allowed
  <2> QED BY <2>2, <2>3, PerformKeeps
<1>3. CASE \E ok \in BOOLEAN : SaveReceivedSysex(ok)
  <2>1. PICK ok \in BOOLEAN : SaveReceivedSysex(ok)
    BY <1>3
  <2> DEFINE allowed == ~Transferring /\ CanSaveReceived(s) /\ ok
  <2>2. Perform("save", allowed, s)
    BY <2>1 DEF SaveReceivedSysex, s
  <2> HIDE DEF allowed
  <2> QED BY <1>1, <2>2, PerformKeeps
<1>4. CASE LoadSysexDocument
  <2> DEFINE allowed == ~Transferring /\ CanLoadDocument(s, Argument)
  <2>1. Perform("handoff", allowed, Loaded(s, Argument))
    BY <1>4 DEF LoadSysexDocument, s
  <2>2. allowed => phase # "active" /\ Good(Loaded(s, Argument))
    BY <1>1, DocumentChanged DEF Transferring
  <2> HIDE DEF allowed
  <2> QED BY <2>1, <2>2, PerformKeeps
<1>5. CASE ClearSysex
  <2> DEFINE allowed == ~Transferring /\ CanClear(s)
  <2>1. Perform("clear", allowed, Cleared(s))
    BY <1>5 DEF ClearSysex, s
  <2>2. allowed => phase # "active" /\ Good(Cleared(s))
    BY <1>1, DocumentChanged DEF Transferring
  <2> HIDE DEF allowed
  <2> QED BY <2>1, <2>2, PerformKeeps
<1>6. CASE SelectTemporaryProfile
  <2> DEFINE next == SelectedTemporary(s, Argument)
  <2>1. Perform("profile", CanSelectTemporary(Argument), next)
    BY <1>6 DEF SelectTemporaryProfile, s
  <2>2. Good(next) /\ SameDocument(session, next)
    BY <1>1, DocumentKept DEF SameDocument
  <2> HIDE DEF next
  <2> QED BY <2>1, <2>2, PerformKeeps
<1>7. CASE RememberManualProfile
  <2> DEFINE next == Remembered(s)
  <2>1. Perform("remember", CanRemember(s), next)
    BY <1>7 DEF RememberManualProfile, s
  <2>2. Good(next) /\ SameDocument(session, next)
    BY <1>1, DocumentKept DEF SameDocument
  <2> HIDE DEF next
  <2> QED BY <2>1, <2>2, PerformKeeps
<1> QED BY <1>2, <1>3, <1>4, <1>5, <1>6, <1>7

(* Receiving starts and ends while nothing is sent.                          *)
LEMMA ReceivingKeeps ==
  ASSUME IInv, BeginSysexReceive \/ FinishSysexReceive
  PROVE  IInv'
<1>1. CASE BeginSysexReceive
  <2>1. PICK batch \in Batches(session) :
          LET s == Synchronized(Consumed(session, batch))
              allowed == ~Transferring /\ Connected /\ link.rx /\ CanBeginReceive(s) IN
          /\ Reap
          /\ session' = IF allowed THEN BegunReceive(s) ELSE s
          /\ UNCHANGED <<link, device, attempt>>
    BY <1>1 DEF BeginSysexReceive
  <2> DEFINE s == Synchronized(Consumed(session, batch))
  <2>2. Good(s) /\ (phase = "active" => SameDocument(session, s))
    BY Drained, DocumentKept DEF SameDocument
  <2>3. Good(BegunReceive(s))
    BY <2>2, DocumentChanged
  <2> HIDE DEF s
  <2>4. session' = s \/ (~Transferring /\ session' = BegunReceive(s))
    BY <2>1 DEF s
  <2> QED BY <2>1, <2>2, <2>3, <2>4, Quiet, Reaped DEF Transferring
<1>2. CASE FinishSysexReceive
  <2>1. PICK batch \in Batches(session), rest \in Leftovers :
          LET s == Consumed(session, batch) IN
          /\ IF CanFinish(s) THEN Reap /\ session' = Synchronized(Finished(s, rest))
             ELSE session' = s /\ UNCHANGED absVars
          /\ UNCHANGED <<link, device, attempt>>
    BY <1>2 DEF FinishSysexReceive
  <2> DEFINE s == Consumed(session, batch)
  <2>2. Good(s) /\ (phase = "active" => s = session)
    BY Drained
  <2>3. Good(Synchronized(Finished(s, rest)))
    BY <2>2, DocumentChanged, DocumentKept
  <2> HIDE DEF s
  <2>4. CASE CanFinish(s)
    <3>1. phase # "active"
      BY <2>2, <2>4 DEF CanFinish, IInv, TransferIsolated
    <3>2. Reap /\ session' = Synchronized(Finished(s, rest))
      BY <2>1, <2>4 DEF s
    <3> QED BY <2>1, <2>3, <3>1, <3>2, Quiet, Reaped
  <2>5. CASE ~CanFinish(s)
    <3>1. session' = s /\ UNCHANGED absVars
      BY <2>1, <2>5 DEF s
    <3> QED BY <2>1, <2>2, <3>1, Quiet DEF absVars, SameDocument
  <2> QED BY <2>4, <2>5
<1> QED BY <1>1, <1>2

(* A transfer starts on an open device with a whole document.                *)
LEMMA StartKeeps ==
  ASSUME IInv, StartRawSend
  PROVE  IInv'
<1>1. UNCHANGED <<link, device>>
  BY DEF StartRawSend
<1>2. CASE /\ Connected /\ CanRawSend(session) /\ Started
  <2>1. /\ total' = Len(session.doc)
        /\ attempt' = [route |-> device.tx, doc |-> session.doc]
        /\ session' = SetProgress(session, "active")
    BY <1>2 DEF Started
  <2>2. Good(session') /\ SameDocument(session, session')
    BY <2>1, DocumentKept DEF IInv
  <2>3. device.state = "open" /\ ~session.receiving /\ AllComplete(session.doc)
    BY <1>2 DEF IInv, Linked, Connected, CanRawSend
  <2>4. TransferIsolated'
    BY <1>1, <2>1, <2>2, <2>3 DEF TransferIsolated, SameDocument, AllComplete
  <2>5. Linked'
    BY <1>1 DEF IInv, Linked
  <2> QED BY <2>2, <2>4, <2>5 DEF IInv, Good, IsSession, Matched
<1>3. CASE Reap /\ session' = Synchronized(session) /\ UNCHANGED attempt
  BY <1>1, <1>3, DocumentKept, Quiet, Reaped DEF IInv
<1> QED BY <1>2, <1>3 DEF StartRawSend

(* The commands that only look, and the captured events of an idle worker.   *)
LEMMA LookingKeeps ==
  ASSUME IInv, CancelTransfer \/ SysexSnapshot \/ AnswerSnapshot \/ ProbeBackends \/ ConsumeEvent
  PROVE  IInv'
<1>1. ASSUME NEW batch, session' = Synchronized(Consumed(session, batch)), Reap,
             UNCHANGED <<link, device, attempt>>
      PROVE  IInv'
  <2>1. Good(session') /\ (phase = "active" => SameDocument(session, session'))
    BY <1>1, Drained, DocumentKept DEF SameDocument
  <2> QED BY <1>1, <2>1, Quiet, Reaped
<1>2. CASE SysexSnapshot \/ ProbeBackends
  BY <1>1, <1>2 DEF SysexSnapshot, ProbeBackends
<1>3. CASE CancelTransfer \/ AnswerSnapshot
  <2>1. /\ session' = Synchronized(session)
        /\ UNCHANGED absVars \/ Reap
        /\ UNCHANGED <<link, device, attempt>>
    BY <1>3 DEF CancelTransfer, AnswerSnapshot
  <2> QED BY <2>1, DocumentKept, Quiet, Reaped DEF IInv, absVars
<1>4. CASE ConsumeEvent
  <2>1. PICK batch : session' = Consumed(session, batch)
    BY <1>4 DEF ConsumeEvent
  <2>2. session.receiving /\ UNCHANGED <<absVars, link, device, attempt>>
    BY <1>4 DEF ConsumeEvent
  <2>3. phase # "active"
    BY <2>2 DEF IInv, TransferIsolated
  <2> QED BY <2>1, <2>2, <2>3, Drained, Quiet DEF absVars
<1> QED BY <1>2, <1>3, <1>4

(* The connection changes only where nothing is sent over it.                *)
LEMMA ConnectionKeeps ==
  ASSUME IInv,
         \/ NoController \/ BeginStop \/ SelectFirst
         \/ \E ok \in BOOLEAN : EndStop(ok)
         \/ \E listed, opens \in BOOLEAN : Connect(listed, opens)
         \/ LoseDevice
  PROVE  IInv'
<1>1. CASE NoController
  <2>1. UNCHANGED <<session, phase, total, link, device, attempt>>
    BY <1>1 DEF NoController, Unchanged, absVars
  <2> QED BY <2>1, Quiet DEF IInv, SameDocument
<1>2. CASE BeginStop
  <2>1. PICK batch : session' = Consumed(session, batch)
    BY <1>2 DEF BeginStop
  <2>2. UNCHANGED <<phase, total, link, device, attempt>>
    BY <1>2 DEF BeginStop, absVars
  <2> QED BY <2>1, <2>2, Drained, Quiet DEF SameDocument
<1>3. ASSUME NewTransport, phase' # "active", Good(session')
      PROVE  IInv'
  <2>1. device' = [state |-> "closed", tx |-> None]
    BY <1>3 DEF NewTransport, Closed
  <2>2. \/ link' = [state |-> "disconnected", rx |-> FALSE, tx |-> None]
        \/ link' = [state |-> "none", rx |-> FALSE, tx |-> None]
    BY <1>3 DEF NewTransport, FreshLink, NoLink
  <2>3. Linked'
    BY <2>1, <2>2 DEF Linked
  <2> QED BY <1>3, <2>3 DEF IInv, TransferIsolated, Good, IsSession, Matched
<1>4. CASE SelectFirst
  <2>1. /\ link.state = "none" /\ NewTransport
        /\ UNCHANGED <<session, phase>>
    BY <1>4 DEF SelectFirst, Unchanged, absVars
  <2>2. phase # "active"
    BY <2>1 DEF IInv, Linked, TransferIsolated
  <2>3. Good(session')
    BY <2>1 DEF IInv
  <2> QED BY <1>3, <2>1, <2>2, <2>3
<1>5. CASE \E ok \in BOOLEAN : EndStop(ok)
  <2>1. PICK ok \in BOOLEAN : EndStop(ok)
    BY <1>5
  <2>2. PICK rest : LET s == Synchronized(session) IN
          /\ session' = IF s.receiving THEN Finished(s, rest) ELSE s
          /\ phase' = "idle"
    BY <2>1 DEF EndStop, StopActivity, Destroyed
  <2>3. Good(session')
    BY <2>2, DocumentKept, DocumentChanged DEF IInv
  <2>4. CASE NewTransport
    BY <1>3, <2>2, <2>3, <2>4
  <2>5. CASE /\ link' = [link EXCEPT !.state = "error"]
             /\ device' = [device EXCEPT !.state = "failed"]
    <3>1. Linked'
      BY <2>5 DEF IInv, Linked
    <3> QED BY <2>2, <2>3, <3>1 DEF IInv, TransferIsolated, Good, IsSession, Matched
  <2>6. CASE link' = [link EXCEPT !.state = "disconnected"] /\ device' = Closed
    <3>1. Linked'
      BY <2>6 DEF IInv, Linked, Closed
    <3> QED BY <2>2, <2>3, <3>1 DEF IInv, TransferIsolated, Good, IsSession, Matched
  <2> QED BY <2>1, <2>4, <2>5, <2>6 DEF EndStop
<1>6. CASE \E listed, opens \in BOOLEAN : Connect(listed, opens)
  <2> DEFINE routes == [state |-> "connected", rx |-> Argument.rx, tx |-> Argument.tx]
  <2>1. PICK listed \in BOOLEAN, opens \in BOOLEAN : Connect(listed, opens)
    BY <1>6
  <2>2. UNCHANGED <<session, phase, total, attempt>>
    BY <2>1 DEF Connect, Unchanged, absVars
  <2>3. Linked' /\ (device' = device \/ device.state = "closed")
    <3>1. CASE /\ link' \in {FreshLink, [routes EXCEPT !.state = "ready", !.tx = None]}
               /\ device' = device
      BY <3>1 DEF FreshLink, NoLink, IInv, Linked
    <3>2. CASE link' = [routes EXCEPT !.state = "error"] /\ device' = device
      BY <3>2 DEF IInv, Linked
    <3>3. CASE /\ device.state = "closed"
               /\ link' = routes /\ device' = [state |-> "open", tx |-> Argument.tx]
      BY <3>3 DEF Linked
    <3>4. CASE /\ device.state = "closed"
               /\ link' = [routes EXCEPT !.state = "error"]
               /\ device' = [state |-> "failed", tx |-> None]
      BY <3>4 DEF Linked
    <3> QED BY <2>1, <3>1, <3>2, <3>3, <3>4 DEF Connect
  <2>4. TransferIsolated'
    BY <2>2, <2>3 DEF IInv, TransferIsolated
  <2> QED BY <2>2, <2>3, <2>4 DEF IInv, Good, IsSession, Matched
<1>7. CASE LoseDevice
  <2>1. /\ device' = [device EXCEPT !.state = "failed"]
        /\ link' = [link EXCEPT !.state = "degraded"]
        /\ UNCHANGED <<session, phase, total, attempt>>
    BY <1>7 DEF LoseDevice, World, absVars
  <2>2. Linked' /\ device'.tx = device.tx /\ device'.state = "failed"
    BY <2>1 DEF IInv, Linked
  <2>3. TransferIsolated'
    BY <2>1, <2>2 DEF IInv, TransferIsolated
  <2> QED BY <2>1, <2>2, <2>3 DEF IInv, Good, IsSession, Matched
<1> QED BY <1>1, <1>2, <1>4, <1>5, <1>6, <1>7

(* The attempt's own thread counts, and ends; the page and the window only   *)
(* ask.                                                                      *)
LEMMA OthersKeep ==
  ASSUME IInv, Engine \/ User \/ Poll \/ (\E name, arg : Request(name, arg)) \/ UNCHANGED vars
  PROVE  IInv'
<1>1. CASE Engine
  <2>1. UNCHANGED <<session, link, device, attempt>> /\ (phase' = "active" => phase = "active")
        /\ total' = total
    BY <1>1 DEF Engine, Accept, End
  <2> QED BY <2>1, Quiet DEF IInv, SameDocument
<1>2. CASE User \/ Poll \/ (\E name, arg : Request(name, arg)) \/ UNCHANGED vars
  <2>1. UNCHANGED <<session, phase, total, link, device, attempt>>
    BY <1>2 DEF User, Click, ClickRemember, ClickSend, ConfirmSend, DeclineSend, Answers, UserTurn,
                Poll, PollRefresh, PollIdle, PollWaiting, PollAnswer, Polls, Request, World,
                vars, workerVars, absVars
  <2> QED BY <2>1, Quiet DEF IInv, SameDocument
<1> QED BY <1>1, <1>2

-----------------------------------------------------------------------------
(* The theorems. *)

(* Every step keeps the invariant.                                           *)
LEMMA NextKeeps ==
  ASSUME IInv, [Next]_vars
  PROVE  IInv'
<1>1. CASE Worker
  <2>1. WorkerSteps
    BY <1>1 DEF Worker
  <2>2. \/ \/ \E ok \in BOOLEAN : LoadSysex(ok) \/ SaveReceivedSysex(ok)
           \/ LoadSysexDocument \/ ClearSysex
           \/ SelectTemporaryProfile \/ RememberManualProfile
        \/ BeginSysexReceive \/ FinishSysexReceive
        \/ StartRawSend
        \/ CancelTransfer \/ SysexSnapshot \/ AnswerSnapshot \/ ProbeBackends
        \/ \/ NoController \/ BeginStop \/ SelectFirst
           \/ \E ok \in BOOLEAN : EndStop(ok)
           \/ \E listed, opens \in BOOLEAN : Connect(listed, opens)
    BY <2>1 DEF WorkerSteps
  <2> QED BY <2>2, SessionCommandsKeep, ReceivingKeeps, StartKeeps, LookingKeeps, ConnectionKeeps
<1>2. CASE Captured
  BY <1>2, LookingKeeps DEF Captured
<1>3. CASE Window
  BY <1>3, ConnectionKeeps, OthersKeep DEF Window
<1>4. CASE Engine \/ User \/ Poll \/ UNCHANGED vars
  BY <1>4, OthersKeep
<1> QED BY <1>1, <1>2, <1>3, <1>4 DEF Next

(* So it holds always.                                                       *)
LEMMA Invariance == Spec => []IInv
<1> QED BY InitIInv, NextKeeps, PTL DEF Spec

(* Nothing disturbs a transfer under way: it is not captured over, its       *)
(* document stays loaded, its route open, whatever commands arrive           *)
(* (ConnectionWorker's tests of state.transfer, stop_activity()).            *)
THEOREM IsolatedTransfer == Spec => []TransferIsolated
<1>1. IInv => TransferIsolated
  BY DEF IInv
<1> QED BY <1>1, Invariance, PTL

(* The profile presented is what the rules give for the document presented,  *)
(* after any commands and captures (evaluate_profile()).                     *)
THEOREM CurrentMatch == Spec => []MatchCurrent
<1>1. IInv => MatchCurrent
  BY DEF IInv, Good, MatchCurrent
<1> QED BY <1>1, Invariance, PTL

-----------------------------------------------------------------------------
(* Acting as shown: what every method but a successful command of the page   *)
(* leaves to the user's eyes.                                                *)

IsSeq(q) == \E S : q \in Seq(S)

(* Besides fitting its document, the session remembers its last match.       *)
Sound(s) == Good(s) /\ IsSeq(s.doc) /\ (s.doc # <<>> => s.last = s.match.overridden)

(* A document that is not being captured stays, and so does an overridden    *)
(* choice, also while frames are added behind the one it was matched by.     *)
Calm(s, t) ==
  /\ ~s.receiving => ~t.receiving /\ t.doc = s.doc
  /\ s.match.overridden # None => t.match.overridden = s.match.overridden
  /\ t.saved = s.saved

LEMMA CalmTwice ==
  ASSUME NEW s, NEW t, NEW u, Calm(s, t), Calm(t, u)
  PROVE  Calm(s, u)
BY DEF Calm

(* A sequence keeps its head when another is put behind it. *)
LEMMA HeadKept ==
  ASSUME NEW q, IsSeq(q), NEW r, IsSeq(r)
  PROVE  IsSeq(q \o r) /\ (q # <<>> => q \o r # <<>> /\ Head(q \o r) = Head(q))
<1>1. PICK S : q \in Seq(S)
  BY DEF IsSeq
<1>2. PICK R : r \in Seq(R)
  BY DEF IsSeq
<1> DEFINE U == S \cup R
<1>3. q \in Seq(U) /\ r \in Seq(U)
  BY <1>1, <1>2, SeqMonotonic
<1> HIDE DEF U
<1>4. /\ q \o r \in Seq(U)
      /\ Len(q \o r) = Len(q) + Len(r)
      /\ \A i \in 1..Len(q) + Len(r) : (q \o r)[i] = IF i <= Len(q) THEN q[i] ELSE r[i - Len(q)]
  BY <1>3, ConcatProperties
<1>5. ASSUME q # <<>> PROVE q \o r # <<>> /\ Head(q \o r) = Head(q)
  <2>1. Len(q) \in Nat \ {0} /\ Len(r) \in Nat
    BY <1>3, <1>5
  <2>2. Len(q \o r) # 0 /\ (q \o r)[1] = q[1]
    BY <1>4, <2>1
  <2>3. q \o r # <<>>
    BY <2>2
  <2>4. Head(q \o r) = (q \o r)[1] /\ Head(q) = q[1]
    BY <1>3, <1>4, <1>5, <2>3
  <2> QED BY <2>2, <2>3, <2>4
<1> QED BY <1>4, <1>5 DEF IsSeq

(* Frames added to a document change neither the choices nor the match. *)
LEMMA Grown ==
  ASSUME NEW s, Sound(s), NEW frames, IsSeq(frames),
         NEW t, IsSession(t), t.doc = s.doc \o frames, t.saved = s.saved, t.manual = s.manual
  PROVE  /\ Sound(Evaluate(t))
         /\ Evaluate(t).saved = s.saved /\ Evaluate(t).receiving = t.receiving
         /\ s.match.overridden # None => Evaluate(t).match.overridden = s.match.overridden
<1> DEFINE e == Evaluate(t)
<1>1. /\ IsSession(e) /\ Matched(e)
      /\ e.doc = t.doc /\ e.saved = t.saved /\ e.manual = t.manual /\ e.receiving = t.receiving
      /\ t.doc # <<>> => e.last = e.match.overridden
  BY Evaluated DEF Fields
<1> HIDE DEF e
<1>2. IsSeq(t.doc) /\ (s.doc # <<>> => t.doc # <<>> /\ Head(t.doc) = Head(s.doc))
  BY HeadKept DEF Sound
<1>3. Sound(e)
  BY <1>1, <1>2 DEF Sound, Good
<1>4. ASSUME s.match.overridden # None PROVE e.match.overridden = s.match.overridden
  <2>1. NoResult.overridden = None
    BY DEF NoResult, Result
  <2>2. s.doc # <<>> /\ s.match = Match(Head(s.doc), s.saved, s.manual)
    BY <1>4, <2>1 DEF Sound, Good, Matched
  <2>3. e.match = Match(Head(e.doc), e.saved, e.manual)
    BY <1>1, <1>2, <2>2 DEF Matched
  <2> QED BY <1>1, <1>2, <2>2, <2>3
<1> QED BY <1>1, <1>3, <1>4 DEF e

(* What is drained, what a capture ends with, and progress are calm. *)
LEMMA ConsumedCalm ==
  ASSUME NEW s, Sound(s), NEW frames, IsSeq(frames)
  PROVE  Sound(Consumed(s, frames)) /\ Calm(s, Consumed(s, frames))
<1>1. CASE ~s.receiving
  BY <1>1 DEF Consumed, Calm
<1>2. CASE s.receiving
  <2> DEFINE t == [s EXCEPT !.doc = @ \o frames]
  <2>0. IsSession(s) /\ "doc" \in Fields
    BY DEF Sound, Good, Fields
  <2>1. IsSession(t)
    BY <2>0 DEF IsSession, Fields
  <2>2. /\ t.doc = s.doc \o frames /\ t.saved = s.saved
        /\ t.manual = s.manual /\ t.receiving = s.receiving
    BY <2>0 DEF IsSession, Fields
  <2> HIDE DEF t
  <2>3. Consumed(s, frames) = Evaluate(t)
    BY <1>2 DEF Consumed, t
  <2> QED BY <1>2, <2>1, <2>2, <2>3, Grown DEF Calm
<1> QED BY <1>1, <1>2

LEMMA FinishedCalm ==
  ASSUME NEW s, Sound(s), NEW frames, IsSeq(frames)
  PROVE  Sound(Finished(s, frames)) /\ (s.receiving => Calm(s, Finished(s, frames)))
         /\ Finished(s, frames).saved = s.saved
<1> DEFINE one == [s EXCEPT !.doc = @ \o frames]
           t   == [one EXCEPT !.receiving = FALSE]
<1>0. IsSession(s) /\ {"doc", "receiving"} \subseteq Fields
  BY DEF Sound, Good, Fields
<1>1. IsSession(one)
  BY <1>0 DEF IsSession, Fields
<1>2. one.doc = s.doc \o frames /\ one.saved = s.saved /\ one.manual = s.manual
  BY <1>0 DEF IsSession, Fields
<1> HIDE DEF one
<1>3. IsSession(t)
  BY <1>1 DEF IsSession, Fields
<1>4. t.receiving = FALSE
  BY <1>1 DEF IsSession, Fields
<1>5. t.doc = s.doc \o frames /\ t.saved = s.saved /\ t.manual = s.manual
  BY <1>1, <1>2 DEF IsSession, Fields
<1> HIDE DEF t
<1>6. Finished(s, frames) = Evaluate(t)
  BY DEF Finished, one, t
<1> QED BY <1>3, <1>4, <1>5, <1>6, Grown DEF Calm

LEMMA ProgressCalm ==
  ASSUME NEW s, Sound(s), NEW p
  PROVE  Sound(SetProgress(s, p)) /\ Calm(s, SetProgress(s, p)) /\ SetProgress(s, p).last = s.last
<1> DEFINE t == SetProgress(s, p)
<1>0. IsSession(s)
  BY DEF Sound, Good
<1>1. IsSession(t) /\ \A f \in Fields \ {"progress"} : t[f] = s[f]
  BY <1>0, Changed DEF SetProgress, Fields
<1>2. /\ t.doc = s.doc /\ t.receiving = s.receiving /\ t.match = s.match
      /\ t.saved = s.saved /\ t.manual = s.manual /\ t.last = s.last
  BY <1>1 DEF Fields
<1> HIDE DEF t
<1> QED BY <1>1, <1>2 DEF Sound, Good, Matched, Calm, t

LEMMA SynchronizedCalm ==
  ASSUME NEW s, Sound(s)
  PROVE  Sound(Synchronized(s)) /\ Calm(s, Synchronized(s)) /\ Synchronized(s).last = s.last
BY ProgressCalm DEF Synchronized, Calm

(* What a successful command leaves is a sound session too, and none but     *)
(* remember_overridden_manual_profile() saves a choice.                      *)
LEMMA CommandsSound ==
  ASSUME NEW s, Sound(s), NEW doc
  PROVE  /\ IsSeq(doc) => Sound(Loaded(s, doc)) /\ Loaded(s, doc).saved = s.saved
         /\ Sound(BegunReceive(s)) /\ BegunReceive(s).saved = s.saved
         /\ Sound(Cleared(s)) /\ Cleared(s).saved = s.saved
         /\ Sound(SelectedTemporary(s, doc)) /\ SelectedTemporary(s, doc).saved = s.saved
         /\ Sound(Remembered(s)) /\ Remembered(s).saved = s.last
<1>0. IsSession(s) /\ IsSeq(s.doc)
  BY DEF Sound, Good
<1>1. ASSUME NEW t, IsSession(t), IsSeq(t.doc)
      PROVE  Sound(Evaluate(t)) /\ Evaluate(t).saved = t.saved
  <2>1. /\ IsSession(Evaluate(t)) /\ Matched(Evaluate(t))
        /\ Evaluate(t).doc = t.doc /\ Evaluate(t).saved = t.saved
        /\ t.doc # <<>> => Evaluate(t).last = Evaluate(t).match.overridden
    BY <1>1, Evaluated DEF Fields
  <2> QED BY <1>1, <2>1 DEF Sound, Good
<1>2. ASSUME IsSeq(doc)
      PROVE  Sound(Loaded(s, doc)) /\ Loaded(s, doc).saved = s.saved
  <2> DEFINE one == [s EXCEPT !.source = "imported"]
             two == [one EXCEPT !.doc = doc]
  <2>1. IsSession(one) /\ one.saved = s.saved
    BY <1>0, Changed DEF Fields
  <2> HIDE DEF one
  <2>2. IsSession(two) /\ two.saved = s.saved /\ two.doc = doc
    BY <2>1, Changed DEF Fields
  <2> HIDE DEF two
  <2>3. Sound(Evaluate(two)) /\ Evaluate(two).saved = s.saved
    BY <1>1, <1>2, <2>2
  <2>4. Loaded(s, doc) = SetProgress(Evaluate(two), "idle")
    BY DEF Loaded, ReplaceDocument, SetProgress, one, two
  <2> QED BY <2>3, <2>4, ProgressCalm DEF Calm
<1>3. IsSeq(<<>>)
  BY DEF IsSeq
<1>4. /\ IsSession(BegunReceive(s)) /\ BegunReceive(s).doc = <<>> /\ BegunReceive(s).saved = s.saved
      /\ BegunReceive(s).match = NoResult
  BY <1>0 DEF IsSession, BegunReceive, Fields
<1>5. /\ IsSession(Cleared(s)) /\ Cleared(s).doc = <<>> /\ Cleared(s).saved = s.saved
      /\ Cleared(s).match = NoResult
  BY <1>0 DEF IsSession, Cleared, Fields
<1>6. Sound(SelectedTemporary(s, doc)) /\ SelectedTemporary(s, doc).saved = s.saved
  <2> DEFINE t == [s EXCEPT !.manual = doc]
  <2>1. IsSession(t) /\ t.doc = s.doc /\ t.saved = s.saved
    BY <1>0, Changed DEF Fields
  <2> HIDE DEF t
  <2> QED BY <1>0, <1>1, <2>1 DEF SelectedTemporary, t
<1>7. Sound(Remembered(s)) /\ Remembered(s).saved = s.last
  <2> DEFINE t == [s EXCEPT !.saved = s.last]
  <2>1. IsSession(t) /\ t.doc = s.doc /\ t.saved = s.last
    BY <1>0, Changed DEF Fields
  <2> HIDE DEF t
  <2> QED BY <1>0, <1>1, <2>1 DEF Remembered, t
<1>8. Sound(BegunReceive(s)) /\ Sound(Cleared(s))
  BY <1>3, <1>4, <1>5 DEF Sound, Good, Matched
<1> QED BY <1>2, <1>4, <1>5, <1>6, <1>7, <1>8

(* The batches that are drained are sequences of frames. *)
LEMMA BatchIsSeq ==
  ASSUME NEW s, IsSeq(s.doc), NEW batch \in Batches(s)
  PROVE  IsSeq(batch)
<1>1. CASE ~s.receiving
  BY <1>1 DEF Batches, IsSeq
<1>2. CASE s.receiving
  <2>1. PICK n \in 0..(MaxFrames - Len(s.doc)) : batch \in [1..n -> Frames]
    BY <1>2 DEF Batches
  <2>2. n \in Nat
    BY <2>1
  <2>3. batch \in Seq(Frames)
    BY <2>1, <2>2, SeqDef
  <2> QED BY <2>3 DEF IsSeq
<1> QED BY <1>1, <1>2

LEMMA LeftoverIsSeq == \A rest \in Leftovers : IsSeq(rest)
<1> TAKE rest \in Leftovers
<1>1. CASE rest = <<>>
  BY <1>1 DEF IsSeq
<1>2. CASE rest # <<>>
  <2>1. PICK f \in Frames : rest = <<f>>
    BY <1>2 DEF Leftovers
  <2>2. rest \in Seq(Frames)
    BY <2>1
  <2> QED BY <2>2 DEF IsSeq
<1> QED BY <1>1, <1>2

-----------------------------------------------------------------------------
(* Who waits for what.  That the page acts on what it shows depends on it    *)
(* having one command and one refresh in the worker at most, so each is      *)
(* followed from its post to its answer.                                     *)

(* The page holds a future of this client. *)
Outstanding(c) == IF c = "panel" THEN pending ELSE refreshPending
Working(c) == work.job.from = c

(* A refresh is a snapshot, the connection bar's commands are not the        *)
(* page's, and what is loaded is a document.                                 *)
KnownJob(j) ==
  /\ j.from \in Clients \cup {"window"}
  /\ j.from = "refresh" <=> j.name = "snapshot"
  /\ j.from = "window" <=> j.name \in {"connect", "disconnect", "select", "probe"}
  /\ j.name \in {"load", "handoff"} => IsSeq(j.arg)

(* A command waits where its client's future is, and is in one place only.   *)
Single ==
  /\ \A i \in 1..Len(jobs) : KnownJob(jobs[i])
  /\ \A i \in 1..Len(jobs), k \in 1..Len(jobs) :
       jobs[i].from = jobs[k].from => i = k \/ jobs[i].from = "window"
  /\ \A i \in 1..Len(jobs), c \in Clients :
       jobs[i].from = c => Outstanding(c) /\ ~answer[c].ready /\ ~Working(c)
  /\ \A c \in Clients : Working(c) => Outstanding(c) /\ ~answer[c].ready
  /\ \A c \in Clients : answer[c].ready => Outstanding(c)

(* What the worker is at belongs to nobody, the page, or the bar; an answer  *)
(* that is not there says nothing.                                           *)
Records ==
  /\ IsSeq(jobs)
  /\ work.at = "idle" => work.job.from = "none"
  /\ work.at = "report" => work.job.from = "panel"
  /\ work.at = "stopping" => work.job.from = "window"
  /\ answer = [c \in Clients |-> answer[c]]
  /\ \A c \in Clients : ~answer[c].ready => answer[c] = NoAnswer

WInv == Records /\ Single

LEMMA QueueAppend ==
  ASSUME NEW q, IsSeq(q), NEW j
  PROVE  /\ IsSeq(Append(q, j))
         /\ Len(q) \in Nat
         /\ Len(Append(q, j)) = Len(q) + 1
         /\ \A i \in 1..Len(q) : Append(q, j)[i] = q[i]
         /\ Append(q, j)[Len(q) + 1] = j
<1>1. PICK S : q \in Seq(S)
  BY DEF IsSeq
<1> DEFINE T == S \cup {j}
<1>2. q \in Seq(T) /\ j \in T
  BY <1>1
<1> HIDE DEF T
<1> QED BY <1>2 DEF IsSeq

LEMMA QueueTail ==
  ASSUME NEW q, IsSeq(q), q # <<>>
  PROVE  /\ IsSeq(Tail(q))
         /\ Len(q) \in Nat \ {0}
         /\ Len(Tail(q)) = Len(q) - 1
         /\ Head(q) = q[1]
         /\ \A i \in 1..Len(Tail(q)) : Tail(q)[i] = q[i + 1] /\ i + 1 \in 1..Len(q)
<1>1. PICK S : q \in Seq(S)
  BY DEF IsSeq
<1>2. /\ Tail(q) \in Seq(S)
      /\ Len(q) \in Nat \ {0} /\ Len(Tail(q)) = Len(q) - 1 /\ Head(q) = q[1]
  BY <1>1
<1>3. \A i \in 1..Len(Tail(q)) : Tail(q)[i] = q[i + 1] /\ i + 1 \in 1..Len(q)
  BY <1>1, <1>2
<1> QED BY <1>2, <1>3 DEF IsSeq

LEMMA InitSingle == Init => WInv
<1> SUFFICES ASSUME Init PROVE WInv
  OBVIOUS
<1>1. /\ jobs = <<>> /\ work = IdleWork
      /\ answer = [c \in Clients |-> NoAnswer]
  BY DEF Init
<1>2. \A c \in Clients : answer[c] = NoAnswer /\ ~answer[c].ready
  BY <1>1 DEF NoAnswer
<1>3. work.job.from = "none" /\ work.at = "idle"
  BY <1>1 DEF IdleWork
<1>4. Records
  BY <1>1, <1>2, <1>3 DEF Records, IsSeq
<1>5. Len(jobs) = 0
  BY <1>1
<1>6. \A c \in Clients : ~Working(c)
  BY <1>3 DEF Working, Clients
<1>7. Single
  BY <1>2, <1>5, <1>6 DEF Single
<1> QED BY <1>4, <1>7 DEF WInv

(* A command is posted for a client that has none, or for the bar.           *)
Posts(c, j) ==
  /\ jobs' = Append(jobs, j)
  /\ KnownJob(j) /\ j.from = c
  /\ UNCHANGED <<work, answer>>
  /\ c \in Clients =>
       /\ \A i \in 1..Len(jobs) : jobs[i].from # c
       /\ ~Working(c) /\ ~answer[c].ready
       /\ Outstanding(c)'
  /\ \A d \in Clients \ {c} : Outstanding(d)' = Outstanding(d)

LEMMA PostSingle ==
  ASSUME WInv, NEW c, NEW j, Posts(c, j)
  PROVE  WInv'
<1>1. /\ IsSeq(jobs')
      /\ Len(jobs) \in Nat
      /\ Len(jobs') = Len(jobs) + 1
      /\ \A i \in 1..Len(jobs) : jobs'[i] = jobs[i]
      /\ jobs'[Len(jobs) + 1] = j
  BY QueueAppend DEF WInv, Records, Posts
<1>2. ASSUME NEW i \in 1..Len(jobs')
      PROVE  \/ i \in 1..Len(jobs) /\ jobs'[i] = jobs[i] /\ (c \in Clients => jobs'[i].from # c)
             \/ i = Len(jobs) + 1 /\ jobs'[i] = j /\ jobs'[i].from = c
  BY <1>1 DEF Posts
<1>3. \A d \in Clients : Working(d)' = Working(d) /\ answer'[d] = answer[d]
  BY DEF Working, Posts
<1>4. \A i \in 1..Len(jobs') : KnownJob(jobs'[i])
  BY <1>2 DEF Posts, WInv, Single
<1>5. c \in Clients \cup {"window"}
  BY DEF Posts, KnownJob
<1>6. \A i \in 1..Len(jobs'), k \in 1..Len(jobs') :
        jobs'[i].from = jobs'[k].from => i = k \/ jobs'[i].from = "window"
  BY <1>2, <1>5 DEF WInv, Single
<1>7. ASSUME NEW i \in 1..Len(jobs'), NEW d \in Clients, jobs'[i].from = d
      PROVE  Outstanding(d)' /\ ~answer'[d].ready /\ ~Working(d)'
  BY <1>2, <1>3, <1>7 DEF Posts, WInv, Single
<1>8. \A d \in Clients : Working(d)' => Outstanding(d)' /\ ~answer'[d].ready
  BY <1>3 DEF Posts, WInv, Single
<1>9. \A d \in Clients : answer'[d].ready => Outstanding(d)'
  BY <1>3 DEF Posts, WInv, Single
<1>10. Single'
  BY <1>4, <1>6, <1>7, <1>8, <1>9 DEF Single, KnownJob
<1>11. Records'
  BY <1>1 DEF Posts, WInv, Records
<1> QED BY <1>10, <1>11 DEF WInv

(* The page gives up a future only with the answer it reads.                 *)
Reads(c) ==
  /\ UNCHANGED <<jobs, work>>
  /\ answer[c].ready /\ Read(c)
  /\ \A d \in Clients \ {c} : Outstanding(d)' = Outstanding(d)

LEMMA ReadSingle ==
  ASSUME WInv, NEW c \in Clients, Reads(c)
  PROVE  WInv' /\ answer'[c] = NoAnswer /\ \A d \in Clients \ {c} : answer'[d] = answer[d]
<1>1. \A d \in Clients : Working(d)' = Working(d)
  BY DEF Working, Reads
<1>2. ~Working(c) /\ \A i \in 1..Len(jobs) : jobs[i].from # c
  BY DEF WInv, Single, Reads
<1>3. /\ answer' = [d \in Clients |-> answer'[d]]
      /\ answer'[c] = NoAnswer
      /\ \A d \in Clients \ {c} : answer'[d] = answer[d]
  BY DEF WInv, Records, Reads, Read
<1>4. ~answer'[c].ready
  BY <1>3 DEF NoAnswer
<1>5. ASSUME NEW i \in 1..Len(jobs'), NEW d \in Clients, jobs'[i].from = d
      PROVE  Outstanding(d)' /\ ~answer'[d].ready /\ ~Working(d)'
  BY <1>1, <1>2, <1>3, <1>5 DEF Reads, WInv, Single
<1>6. \A d \in Clients : Working(d)' => Outstanding(d)' /\ ~answer'[d].ready
  BY <1>1, <1>2, <1>3 DEF Reads, WInv, Single
<1>7. \A d \in Clients : answer'[d].ready => Outstanding(d)'
  BY <1>3, <1>4 DEF Reads, WInv, Single
<1>8. Single'
  BY <1>5, <1>6, <1>7 DEF Reads, WInv, Single, KnownJob
<1>9. Records'
  BY <1>3 DEF Reads, WInv, Records
<1> QED BY <1>3, <1>8, <1>9 DEF WInv

(* A step that neither posts nor takes, answers nor reads.                   *)
Leaves == UNCHANGED <<jobs, work, answer, pending, refreshPending>>

LEMMA LeaveSingle ==
  ASSUME WInv, Leaves
  PROVE  WInv'
BY DEF WInv, Records, Single, Leaves, Working, Outstanding, KnownJob

(* What a worker's step does to the commands: it takes the one that waited   *)
(* longest, or goes on; it answers a client, or nobody yet.                  *)
Takes == work.at = "idle" /\ jobs # <<>> /\ jobs' = Tail(jobs)

Ends(c) ==
  /\ \/ Takes /\ Head(jobs).from = c
     \/ jobs' = jobs /\ Working(c)
  /\ work' = IdleWork
  /\ \E reply : reply.ready /\ answer' = [answer EXCEPT ![c] = reply]

Silent ==
  /\ answer' = answer
  /\ \/ Takes /\ work'.job = Head(jobs) /\ work'.at = "report" /\ Head(jobs).from = "panel"
     \/ Takes /\ work'.job = Head(jobs) /\ work'.at = "stopping" /\ Head(jobs).from = "window"
     \/ Takes /\ work' = IdleWork /\ Head(jobs).from = "window"
     \/ jobs' = jobs /\ work' = IdleWork /\ work.job.from = "window"
     \/ UNCHANGED <<jobs, work>>

(* What is left of the queue. *)
LEMMA Shortened ==
  ASSUME WInv, Takes
  PROVE  /\ IsSeq(jobs') /\ Len(jobs) \in Nat \ {0}
         /\ Head(jobs) = jobs[1] /\ 1 \in 1..Len(jobs)
         /\ KnownJob(Head(jobs))
         /\ \A i \in 1..Len(jobs') :
              jobs'[i] = jobs[i + 1] /\ i + 1 \in 1..Len(jobs) /\ i + 1 # 1 /\ i \in Nat
         /\ \A c \in Clients : ~Working(c)
<1>1. /\ IsSeq(jobs') /\ Len(jobs) \in Nat \ {0}
      /\ Len(jobs') = Len(jobs) - 1
      /\ Head(jobs) = jobs[1]
      /\ \A i \in 1..Len(jobs') : jobs'[i] = jobs[i + 1] /\ i + 1 \in 1..Len(jobs)
  BY QueueTail DEF WInv, Records, Takes
<1>2. 1 \in 1..Len(jobs)
  BY <1>1
<1>3. \A i \in 1..Len(jobs') : i \in Nat /\ i + 1 # 1
  BY <1>1
<1>4. \A c \in Clients : ~Working(c)
  BY DEF WInv, Records, Takes, Working, Clients
<1> QED BY <1>1, <1>2, <1>3, <1>4 DEF WInv, Single

(* The queue keeps its commands in places of their own. *)
LEMMA QueueSingle ==
  ASSUME WInv, Takes \/ jobs' = jobs
  PROVE  /\ IsSeq(jobs')
         /\ \A i \in 1..Len(jobs') : KnownJob(jobs'[i])
         /\ \A i \in 1..Len(jobs'), k \in 1..Len(jobs') :
              jobs'[i].from = jobs'[k].from => i = k \/ jobs'[i].from = "window"
         /\ \A i \in 1..Len(jobs') : \E k \in 1..Len(jobs) :
              /\ jobs'[i] = jobs[k]
              /\ Takes /\ Head(jobs).from # "window" => jobs[k].from # Head(jobs).from
<1>1. CASE jobs' = jobs /\ ~Takes
  BY <1>1 DEF WInv, Records, Single
<1>2. CASE Takes
  <2>1. ASSUME NEW i \in 1..Len(jobs'), NEW k \in 1..Len(jobs'), jobs'[i].from = jobs'[k].from
        PROVE  i = k \/ jobs'[i].from = "window"
    <3>1. jobs'[i] = jobs[i + 1] /\ i + 1 \in 1..Len(jobs) /\ i \in Nat
      BY <1>2, Shortened
    <3>2. jobs'[k] = jobs[k + 1] /\ k + 1 \in 1..Len(jobs) /\ k \in Nat
      BY <1>2, Shortened
    <3>3. i + 1 = k + 1 \/ jobs'[i].from = "window"
      BY <2>1, <3>1, <3>2 DEF WInv, Single
    <3> QED BY <3>1, <3>2, <3>3
  <2>2. ASSUME NEW i \in 1..Len(jobs')
        PROVE  /\ jobs'[i] = jobs[i + 1] /\ i + 1 \in 1..Len(jobs)
               /\ Head(jobs).from # "window" => jobs[i + 1].from # Head(jobs).from
    BY <1>2, Shortened DEF WInv, Single
  <2> QED BY <1>2, <2>1, <2>2, Shortened DEF WInv, Single
<1> QED BY <1>1, <1>2

LEMMA EndSingle ==
  ASSUME WInv, NEW c \in Clients, Ends(c), UNCHANGED <<pending, refreshPending>>
  PROVE  /\ WInv'
         /\ Outstanding(c) /\ ~answer[c].ready /\ answer'[c].ready
         /\ \A d \in Clients \ {c} : answer'[d] = answer[d]
<1>1. PICK reply : reply.ready /\ answer' = [answer EXCEPT ![c] = reply]
  BY DEF Ends
<1>2. /\ answer' = [d \in Clients |-> answer'[d]]
      /\ answer'[c] = reply
      /\ \A d \in Clients \ {c} : answer'[d] = answer[d]
  BY <1>1 DEF WInv, Records
<1>3. Outstanding(c) /\ ~answer[c].ready
  BY Shortened DEF Ends, WInv, Single
<1>4. work' = IdleWork /\ work'.at = "idle" /\ work'.job.from = "none"
  BY DEF Ends, IdleWork
<1>5. \A d \in Clients : ~Working(d)' /\ Outstanding(d)' = Outstanding(d)
  BY <1>4 DEF Working, Outstanding, Clients
<1>6. \A i \in 1..Len(jobs') : \E k \in 1..Len(jobs) : jobs'[i] = jobs[k] /\ jobs[k].from # c
  BY QueueSingle DEF Ends, Clients, WInv, Single
<1>7. ASSUME NEW i \in 1..Len(jobs'), NEW d \in Clients, jobs'[i].from = d
      PROVE  Outstanding(d)' /\ ~answer'[d].ready /\ ~Working(d)'
  BY <1>2, <1>5, <1>6, <1>7 DEF WInv, Single
<1>8. \A d \in Clients : answer'[d].ready => Outstanding(d)'
  BY <1>2, <1>3, <1>5 DEF WInv, Single
<1>9. Single'
  BY <1>5, <1>7, <1>8, QueueSingle DEF Single, Ends, KnownJob
<1>10. Records'
  BY <1>1, <1>2, <1>4, QueueSingle DEF Records, WInv, Ends
<1> QED BY <1>1, <1>2, <1>3, <1>9, <1>10 DEF WInv

LEMMA SilentSingle ==
  ASSUME WInv, Silent, UNCHANGED <<pending, refreshPending>>
  PROVE  WInv'
<1>1. \A d \in Clients : Outstanding(d)' = Outstanding(d) /\ answer'[d] = answer[d]
  BY DEF Silent, Outstanding
<1>2. CASE UNCHANGED <<jobs, work>>
  BY <1>2, LeaveSingle DEF Silent, Leaves
<1>3. CASE ~UNCHANGED <<jobs, work>>
  <2>1. Takes \/ jobs' = jobs
    BY DEF Silent
  <2>2. ASSUME NEW d \in Clients, Working(d)'
        PROVE  Takes /\ Head(jobs).from = d
    <3>1. IdleWork.job.from \notin Clients
      BY DEF IdleWork, Clients
    <3> QED BY <1>3, <2>2, <3>1 DEF Silent, Working, Clients
  <2>3. \A d \in Clients : Working(d)' => Outstanding(d)' /\ ~answer'[d].ready
    BY <1>1, <2>2, Shortened DEF WInv, Single
  <2>4. ASSUME NEW i \in 1..Len(jobs'), NEW d \in Clients, jobs'[i].from = d
        PROVE  Outstanding(d)' /\ ~answer'[d].ready /\ ~Working(d)'
    <3>1. PICK k \in 1..Len(jobs) :
             /\ jobs'[i] = jobs[k]
             /\ Takes /\ Head(jobs).from # "window" => jobs[k].from # Head(jobs).from
      BY <2>1, QueueSingle
    <3> QED BY <1>1, <2>2, <2>4, <3>1 DEF WInv, Single, Clients
  <2>5. Single'
    BY <1>1, <2>1, <2>3, <2>4, QueueSingle DEF Single, WInv, KnownJob
  <2>6. /\ work'.at = "idle" => work'.job.from = "none"
        /\ work'.at = "report" => work'.job.from = "panel"
        /\ work'.at = "stopping" => work'.job.from = "window"
    BY <1>3 DEF Silent, IdleWork
  <2>7. Records'
    BY <1>1, <2>1, <2>6, QueueSingle DEF Records, WInv, Silent
  <2> QED BY <2>5, <2>7 DEF WInv
<1> QED BY <1>2, <1>3

-----------------------------------------------------------------------------
(* What the worker's steps tell the page, of which session.                  *)

Shows(snap, s) == snap.receiving = s.receiving /\ snap.doc = s.doc /\ snap.match = s.match

Told(c)    == Ends(c) /\ answer'[c].ok /\ Shows(answer'[c].snapshot, session')
Refused(c) == Ends(c) /\ ~answer'[c].ok

(* Either nothing that the page has seen changes, or the page is told.       *)
Tame ==
  /\ Calm(session, session')
  /\ Silent \/ Refused("panel") \/ Told("panel") \/ Told("refresh")

Remembers ==
  /\ Takes /\ Head(jobs).name = "remember"
  /\ session.last \in Profiles /\ session'.saved = session.last

Sorted ==
  /\ Sound(session')
  /\ Tame \/ (Told("panel") /\ (session'.saved = session.saved \/ Remembers))

SInv == WInv /\ Sound(session)

PageCommands ==
  {"load", "handoff", "receive", "finish", "clear", "profile", "remember", "save", "send", "cancel"}

LEMMA CommandTakes ==
  ASSUME SInv, NEW name, Command(name)
  PROVE  /\ Takes /\ Head(jobs).name = name
         /\ name \in PageCommands => Head(jobs).from = "panel"
         /\ name = "snapshot" => Head(jobs).from = "refresh"
         /\ name \in {"connect", "disconnect", "select", "probe"} => Head(jobs).from = "window"
         /\ name \in {"load", "handoff"} => IsSeq(Argument)
<1>1. Takes /\ Head(jobs).name = name
  BY DEF Command, Takes
<1>2. KnownJob(Head(jobs))
  BY <1>1, Shortened DEF SInv
<1> QED BY <1>1, <1>2 DEF KnownJob, PageCommands, Clients, Argument

LEMMA RespondTells ==
  ASSUME SInv, NEW c \in Clients, Respond(c),
         \/ Takes /\ Head(jobs).from = c
         \/ jobs' = jobs /\ Working(c)
  PROVE  Told(c)
<1> DEFINE reply == [ready |-> TRUE, ok |-> TRUE, snapshot |-> Snapshot(session')]
<1>1. work' = IdleWork /\ answer' = [answer EXCEPT ![c] = reply]
  BY DEF Respond
<1>2. reply.ready /\ reply.ok /\ reply.snapshot = Snapshot(session')
  OBVIOUS
<1> HIDE DEF reply
<1>3. Ends(c)
  BY <1>1, <1>2 DEF Ends
<1>4. answer'[c] = reply
  BY <1>1 DEF SInv, WInv, Records
<1>5. Shows(Snapshot(session'), session')
  BY DEF Shows, Snapshot
<1> QED BY <1>2, <1>3, <1>4, <1>5 DEF Told

LEMMA RefuseTells ==
  ASSUME SInv, Takes, Head(jobs).from = "panel", Refuse
  PROVE  Refused("panel")
<1> DEFINE reply == [NoAnswer EXCEPT !.ready = TRUE]
<1>1. ~answer["panel"].ready
  BY Shortened DEF SInv, WInv, Single, Clients
<1>2. answer["panel"] = NoAnswer
  BY <1>1 DEF SInv, WInv, Records, Clients
<1>3. work' = IdleWork /\ answer' = [answer EXCEPT !["panel"] = reply]
  BY <1>2 DEF Refuse
<1>4. reply.ready /\ ~reply.ok
  BY DEF NoAnswer
<1> HIDE DEF reply
<1>5. answer'["panel"] = reply
  BY <1>3 DEF SInv, WInv, Records, Clients
<1>6. Ends("panel")
  BY <1>3, <1>4 DEF Ends
<1> QED BY <1>4, <1>5, <1>6 DEF Refused

(* What is drained and taken over is calm. *)
LEMMA DrainedCalm ==
  ASSUME SInv
  PROVE  /\ Sound(Synchronized(session)) /\ Calm(session, Synchronized(session))
         /\ Synchronized(session).last = session.last
         /\ \A batch \in Batches(session) :
              LET s == Consumed(session, batch) IN
              /\ Sound(s) /\ Calm(session, s)
              /\ Sound(Synchronized(s)) /\ Calm(session, Synchronized(s))
<1>1. Sound(Synchronized(session)) /\ Calm(session, Synchronized(session))
      /\ Synchronized(session).last = session.last
  BY SynchronizedCalm DEF SInv
<1>2. ASSUME NEW batch \in Batches(session)
      PROVE  LET s == Consumed(session, batch) IN
             /\ Sound(s) /\ Calm(session, s)
             /\ Sound(Synchronized(s)) /\ Calm(session, Synchronized(s))
  <2> DEFINE s == Consumed(session, batch)
  <2>1. Sound(s) /\ Calm(session, s)
    BY <1>2, BatchIsSeq, ConsumedCalm DEF SInv, Sound
  <2> HIDE DEF s
  <2>2. Sound(Synchronized(s)) /\ Calm(s, Synchronized(s))
    BY <2>1, SynchronizedCalm
  <2> QED BY <2>1, <2>2, CalmTwice DEF s
<1> QED BY <1>1, <1>2

LEMMA PerformSorts ==
  ASSUME SInv, NEW name \in PageCommands, NEW allowed, NEW next, Perform(name, allowed, next),
         allowed => /\ Sound(next)
                    /\ \/ next.saved = session.saved
                       \/ /\ name = "remember" /\ session.last \in Profiles
                          /\ next.saved = session.last
  PROVE  Sorted
<1>1. Takes /\ Head(jobs).name = name /\ Head(jobs).from = "panel"
  BY CommandTakes DEF Perform
<1>2. CASE allowed
  <2>1. session' = next /\ Respond("panel")
    BY <1>1, <1>2 DEF Perform
  <2>2. Told("panel")
    <3>1. "panel" \in Clients
      BY DEF Clients
    <3> QED BY <1>1, <2>1, <3>1, RespondTells
  <2> QED BY <1>1, <1>2, <2>1, <2>2 DEF Sorted, Remembers
<1>3. CASE ~allowed
  <2>1. session' = Synchronized(session) /\ Refuse
    BY <1>3 DEF Perform
  <2>2. Refused("panel")
    BY <1>1, <2>1, RefuseTells
  <2> QED BY <2>1, <2>2, DrainedCalm DEF Sorted, Tame
<1> QED BY <1>2, <1>3

LEMMA SessionCommandsSort ==
  ASSUME SInv,
         \/ \E ok \in BOOLEAN : LoadSysex(ok) \/ SaveReceivedSysex(ok)
         \/ LoadSysexDocument \/ ClearSysex
         \/ SelectTemporaryProfile \/ RememberManualProfile
  PROVE  Sorted
<1> DEFINE s == Synchronized(session)
<1>1. Sound(s) /\ s.saved = session.saved /\ s.last = session.last
  BY DrainedCalm DEF Calm
<1> HIDE DEF s
<1>0. {"load", "handoff", "clear", "profile", "remember", "save"} \subseteq PageCommands
  BY DEF PageCommands
<1>2. CASE \E ok \in BOOLEAN : LoadSysex(ok)
  <2>1. PICK ok \in BOOLEAN : LoadSysex(ok)
    BY <1>2
  <2> DEFINE allowed == ~Transferring /\ CanLoadFile(s) /\ ok
  <2>2. Perform("load", allowed, Loaded(s, Argument))
    BY <2>1 DEF LoadSysex, s
  <2>3. Sound(Loaded(s, Argument)) /\ Loaded(s, Argument).saved = session.saved
    BY <1>1, <2>2, CommandTakes, CommandsSound DEF Perform
  <2> HIDE DEF allowed
  <2> QED BY <1>0, <2>2, <2>3, PerformSorts
<1>3. CASE \E ok \in BOOLEAN : SaveReceivedSysex(ok)
  <2>1. PICK ok \in BOOLEAN : SaveReceivedSysex(ok)
    BY <1>3
  <2> DEFINE allowed == ~Transferring /\ CanSaveReceived(s) /\ ok
  <2>2. Perform("save", allowed, s)
    BY <2>1 DEF SaveReceivedSysex, s
  <2> HIDE DEF allowed
  <2> QED BY <1>0, <1>1, <2>2, PerformSorts
<1>4. CASE LoadSysexDocument
  <2> DEFINE allowed == ~Transferring /\ CanLoadDocument(s, Argument)
  <2>1. Perform("handoff", allowed, Loaded(s, Argument))
    BY <1>4 DEF LoadSysexDocument, s
  <2>2. Sound(Loaded(s, Argument)) /\ Loaded(s, Argument).saved = session.saved
    BY <1>1, <2>1, CommandTakes, CommandsSound DEF Perform
  <2> HIDE DEF allowed
  <2> QED BY <1>0, <2>1, <2>2, PerformSorts
<1>5. CASE ClearSysex
  <2> DEFINE allowed == ~Transferring /\ CanClear(s)
  <2>1. Perform("clear", allowed, Cleared(s))
    BY <1>5 DEF ClearSysex, s
  <2>2. Sound(Cleared(s)) /\ Cleared(s).saved = session.saved
    BY <1>1, CommandsSound
  <2> HIDE DEF allowed
  <2> QED BY <1>0, <2>1, <2>2, PerformSorts
<1>6. CASE SelectTemporaryProfile
  <2> DEFINE next == SelectedTemporary(s, Argument)
  <2>1. Perform("profile", CanSelectTemporary(Argument), next)
    BY <1>6 DEF SelectTemporaryProfile, s
  <2>2. Sound(next) /\ next.saved = session.saved
    BY <1>1, CommandsSound
  <2> HIDE DEF next
  <2> QED BY <1>0, <2>1, <2>2, PerformSorts
<1>7. CASE RememberManualProfile
  <2> DEFINE next == Remembered(s)
  <2>1. Perform("remember", CanRemember(s), next)
    BY <1>7 DEF RememberManualProfile, s
  <2>2. Sound(next) /\ next.saved = session.last
    BY <1>1, CommandsSound
  <2>3. CanRemember(s) => session.last \in Profiles
    BY <1>1 DEF CanRemember
  <2> HIDE DEF next
  <2> QED BY <1>0, <2>1, <2>2, <2>3, PerformSorts
<1> QED BY <1>2, <1>3, <1>4, <1>5, <1>6, <1>7

LEMMA ReceivingSorts ==
  ASSUME SInv, BeginSysexReceive \/ FinishSysexReceive
  PROVE  Sorted
<1>0. {"receive", "finish"} \subseteq PageCommands /\ "panel" \in Clients
  BY DEF PageCommands, Clients
<1>1. CASE BeginSysexReceive
  <2>1. PICK batch \in Batches(session) :
          LET s == Synchronized(Consumed(session, batch)) IN
          /\ Command("receive")
          /\ \/ session' = BegunReceive(s) /\ Respond("panel")
             \/ session' = s /\ Refuse
    BY <1>1 DEF BeginSysexReceive
  <2> DEFINE s == Synchronized(Consumed(session, batch))
  <2>2. Sound(s) /\ Calm(session, s)
    BY <2>1, DrainedCalm
  <2> HIDE DEF s
  <2>3. Takes /\ Head(jobs).from = "panel"
    BY <1>0, <2>1, CommandTakes
  <2>4. CASE session' = BegunReceive(s) /\ Respond("panel")
    <3>1. Told("panel")
      BY <1>0, <2>3, <2>4, RespondTells
    <3>2. Sound(session') /\ session'.saved = session.saved
      BY <2>2, <2>4, CommandsSound DEF Calm
    <3> QED BY <3>1, <3>2 DEF Sorted
  <2>5. CASE session' = s /\ Refuse
    <3>1. Refused("panel")
      BY <2>3, <2>5, RefuseTells
    <3> QED BY <2>2, <2>5, <3>1 DEF Sorted, Tame
  <2> QED BY <2>1, <2>4, <2>5 DEF s
<1>2. CASE FinishSysexReceive
  <2>1. PICK batch \in Batches(session), rest \in Leftovers :
          LET s == Consumed(session, batch) IN
          /\ Command("finish")
          /\ \/ session' = Synchronized(Finished(s, rest)) /\ Respond("panel")
             \/ session' = s /\ Refuse
    BY <1>2 DEF FinishSysexReceive
  <2> DEFINE s == Consumed(session, batch)
  <2>2. Sound(s) /\ Calm(session, s)
    BY <2>1, DrainedCalm
  <2> HIDE DEF s
  <2>3. Takes /\ Head(jobs).from = "panel"
    BY <1>0, <2>1, CommandTakes
  <2>4. CASE session' = Synchronized(Finished(s, rest)) /\ Respond("panel")
    <3>1. Told("panel")
      BY <1>0, <2>3, <2>4, RespondTells
    <3>2. Sound(Finished(s, rest)) /\ Finished(s, rest).saved = s.saved
      BY <2>2, LeftoverIsSeq, FinishedCalm
    <3>3. Sound(session') /\ session'.saved = Finished(s, rest).saved
      BY <2>4, <3>2, SynchronizedCalm DEF Calm
    <3>4. session'.saved = session.saved
      BY <2>2, <3>2, <3>3 DEF Calm
    <3> QED BY <3>1, <3>3, <3>4 DEF Sorted
  <2>5. CASE session' = s /\ Refuse
    <3>1. Refused("panel")
      BY <2>3, <2>5, RefuseTells
    <3> QED BY <2>2, <2>5, <3>1 DEF Sorted, Tame
  <2> QED BY <2>1, <2>4, <2>5 DEF s
<1> QED BY <1>1, <1>2

(* A report of the page's command, still to be answered. *)
LEMMA ReportSilent ==
  ASSUME SInv, NEW name \in PageCommands, Command(name), Report
  PROVE  Silent
<1>1. Takes /\ Head(jobs).from = "panel"
  BY CommandTakes
<1>2. work'.at = "report" /\ work'.job = Head(jobs) /\ answer' = answer
  BY DEF Report
<1> QED BY <1>1, <1>2 DEF Silent

LEMMA AttemptSorts ==
  ASSUME SInv, StartRawSend \/ CancelTransfer \/ AnswerSnapshot
  PROVE  Sorted
<1>0. {"send", "cancel"} \subseteq PageCommands /\ "panel" \in Clients
  BY DEF PageCommands, Clients
<1>1. CASE StartRawSend
  <2>1. Command("send")
    BY <1>1 DEF StartRawSend
  <2>2. CASE session' = SetProgress(session, "active") /\ Report
    <3>1. Silent
      BY <1>0, <2>1, <2>2, ReportSilent
    <3> QED BY <2>2, <3>1, ProgressCalm DEF SInv, Sorted, Tame
  <2>3. CASE session' = Synchronized(session) /\ Refuse
    <3>1. Refused("panel")
      BY <1>0, <2>1, <2>3, CommandTakes, RefuseTells
    <3> QED BY <2>3, <3>1, DrainedCalm DEF Sorted, Tame
  <2> QED BY <1>1, <2>2, <2>3 DEF StartRawSend, Started
<1>2. CASE CancelTransfer
  <2>1. Command("cancel") /\ session' = Synchronized(session) /\ Report
    BY <1>2 DEF CancelTransfer
  <2>2. Silent
    BY <1>0, <2>1, ReportSilent
  <2> QED BY <2>1, <2>2, DrainedCalm DEF Sorted, Tame
<1>3. CASE AnswerSnapshot
  <2>1. work.at = "report" /\ session' = Synchronized(session) /\ Respond("panel") /\ jobs' = jobs
    BY <1>3 DEF AnswerSnapshot
  <2>2. Working("panel")
    BY <2>1 DEF SInv, WInv, Records, Working
  <2>3. Told("panel")
    BY <1>0, <2>1, <2>2, RespondTells
  <2> QED BY <2>1, <2>3, DrainedCalm DEF Sorted, Tame
<1> QED BY <1>1, <1>2, <1>3

LEMMA LookingSorts ==
  ASSUME SInv, SysexSnapshot \/ ProbeBackends \/ ConsumeEvent
  PROVE  Sorted
<1>1. CASE SysexSnapshot
  <2>1. PICK batch \in Batches(session) :
          Command("snapshot") /\ session' = Synchronized(Consumed(session, batch)) /\ Respond("refresh")
    BY <1>1 DEF SysexSnapshot
  <2>2. "refresh" \in Clients /\ Takes /\ Head(jobs).from = "refresh"
    BY <2>1, CommandTakes DEF Clients
  <2>3. Told("refresh")
    BY <2>1, <2>2, RespondTells
  <2> QED BY <2>1, <2>3, DrainedCalm DEF Sorted, Tame
<1>2. CASE ProbeBackends
  <2>1. PICK batch \in Batches(session) :
          Command("probe") /\ session' = Synchronized(Consumed(session, batch)) /\ Reply
    BY <1>2 DEF ProbeBackends
  <2>2. Silent
    BY <2>1, CommandTakes DEF Silent, Reply
  <2> QED BY <2>1, <2>2, DrainedCalm DEF Sorted, Tame
<1>3. CASE ConsumeEvent
  <2>1. PICK batch \in Batches(session) : session' = Consumed(session, batch)
    BY <1>3 DEF ConsumeEvent
  <2>2. Silent
    BY <1>3 DEF Silent, ConsumeEvent
  <2> QED BY <2>1, <2>2, DrainedCalm DEF Sorted, Tame
<1> QED BY <1>1, <1>2, <1>3

LEMMA ConnectionSorts ==
  ASSUME SInv,
         \/ NoController \/ BeginStop \/ SelectFirst
         \/ \E ok \in BOOLEAN : EndStop(ok)
         \/ \E listed, opens \in BOOLEAN : Connect(listed, opens)
  PROVE  Sorted
<1>1. ASSUME NEW name \in {"connect", "disconnect", "select", "probe"}, Command(name), Reply
      PROVE  Silent
  BY <1>1, CommandTakes DEF Silent, Reply
<1>2. ASSUME Silent, session' = session
      PROVE  Sorted
  BY <1>2 DEF SInv, Sorted, Tame, Calm
<1>3. CASE NoController
  <2>1. PICK name \in {"connect", "disconnect"} : Command(name)
    BY <1>3 DEF NoController
  <2>2. Reply /\ session' = session
    BY <1>3 DEF NoController, Unchanged
  <2> QED BY <1>1, <1>2, <2>1, <2>2
<1>4. CASE SelectFirst
  <2>1. Command("select") /\ Reply /\ session' = session
    BY <1>4 DEF SelectFirst, Unchanged
  <2> QED BY <1>1, <1>2, <2>1
<1>5. CASE \E listed, opens \in BOOLEAN : Connect(listed, opens)
  <2>1. Command("connect") /\ Reply /\ session' = session
    BY <1>5 DEF Connect, Unchanged
  <2> QED BY <1>1, <1>2, <2>1
<1>6. CASE BeginStop
  <2>1. PICK name \in {"disconnect", "select"}, batch \in Batches(session) :
          /\ Command(name)
          /\ session' = Consumed(session, batch)
          /\ work' = [at |-> "stopping", job |-> Head(jobs)]
          /\ answer' = answer
    BY <1>6 DEF BeginStop
  <2>2. Takes /\ Head(jobs).from = "window"
    BY <2>1, CommandTakes
  <2>3. Silent
    BY <2>1, <2>2 DEF Silent
  <2> QED BY <2>1, <2>3, DrainedCalm DEF Sorted, Tame
<1>7. CASE \E ok \in BOOLEAN : EndStop(ok)
  <2> DEFINE s == Synchronized(session)
  <2>1. PICK rest \in Leftovers :
          /\ session' = IF s.receiving THEN Finished(s, rest) ELSE s
          /\ work.at = "stopping" /\ Reply /\ jobs' = jobs
    BY <1>7 DEF EndStop, StopActivity
  <2>2. Silent
    BY <2>1 DEF SInv, WInv, Records, Reply, Silent
  <2>3. Sound(s) /\ Calm(session, s)
    BY DrainedCalm
  <2> HIDE DEF s
  <2>4. Sound(session') /\ Calm(s, session')
    BY <2>1, <2>3, LeftoverIsSeq, FinishedCalm DEF Calm
  <2>5. Calm(session, session')
    BY <2>3, <2>4, CalmTwice
  <2> QED BY <2>2, <2>4, <2>5 DEF Sorted, Tame
<1> QED BY <1>3, <1>4, <1>5, <1>6, <1>7

(* So every step of the worker keeps the bookkeeping.                        *)
LEMMA WorkerSorts ==
  ASSUME SInv, WorkerSteps \/ ConsumeEvent
  PROVE  Sorted
<1>1. \/ \/ \E ok \in BOOLEAN : LoadSysex(ok) \/ SaveReceivedSysex(ok)
         \/ LoadSysexDocument \/ ClearSysex
         \/ SelectTemporaryProfile \/ RememberManualProfile
      \/ BeginSysexReceive \/ FinishSysexReceive
      \/ StartRawSend \/ CancelTransfer \/ AnswerSnapshot
      \/ SysexSnapshot \/ ProbeBackends \/ ConsumeEvent
      \/ \/ NoController \/ BeginStop \/ SelectFirst
         \/ \E ok \in BOOLEAN : EndStop(ok)
         \/ \E listed, opens \in BOOLEAN : Connect(listed, opens)
  BY DEF WorkerSteps
<1> QED
  BY <1>1, SessionCommandsSort, ReceivingSorts, AttemptSorts, LookingSorts, ConnectionSorts

LEMMA SortedSingle ==
  ASSUME SInv, Sorted, UNCHANGED <<pending, refreshPending>>
  PROVE  SInv'
<1>1. {"panel", "refresh"} \subseteq Clients
  BY DEF Clients
<1>2. WInv'
  BY <1>1, EndSingle, SilentSingle DEF SInv, Sorted, Tame, Told, Refused
<1> QED BY <1>2 DEF SInv, Sorted, Sound, Good, IsSession, Matched

-----------------------------------------------------------------------------
(* What the page sees.  A snapshot that no successful command has overtaken  *)
(* fits the session: what it does not show being captured is what is loaded, *)
(* and the overridden choice it shows is the one in force.                   *)

Fits(snap, s) ==
  /\ ~snap.receiving => ~s.receiving /\ s.doc = snap.doc
  /\ snap.match.overridden # None => s.match.overridden = snap.match.overridden

(* An answer the page has not read yet makes what it shows old; so does one  *)
(* it has read since a refresh was asked for.                                *)
Done == answer["panel"].ready /\ answer["panel"].ok
FreshRefresh == answer["refresh"].ready /\ ~overtaken

(* Under the dialog, that nothing is captured stays so whatever refresh is   *)
(* shown, unless an overtaken one was shown when the dialog opened.          *)
Views ==
  /\ ~stale /\ ~Done => Fits(shown, session)
  /\ Done => Fits(answer["panel"].snapshot, session)
  /\ FreshRefresh /\ ~Done =>
       /\ Fits(answer["refresh"].snapshot, session)
       /\ ~stale /\ ~shown.receiving => ~answer["refresh"].snapshot.receiving
  /\ dialog # NoDialog => ~pending
  /\ dialog # NoDialog /\ ~confirmed.stale =>
       /\ ~session.receiving
       /\ ~stale => ~shown.receiving
       /\ FreshRefresh => ~answer["refresh"].snapshot.receiving

(* The command on its way asks for what was confirmed, and that is still     *)
(* what the session holds.                                                   *)
AskedOf(j) ==
  /\ j.name = "send" =>
       /\ j.arg = confirmed.route
       /\ confirmed.stale \/ (session.doc = confirmed.doc /\ ~session.receiving)
  /\ j.name = "remember" =>
       \/ confirmed.stale
       \/ session.match.overridden = confirmed.profile /\ confirmed.profile # None

Asked == \A i \in 1..Len(jobs) : AskedOf(jobs[i])

VInv == IInv /\ SInv /\ Views /\ Asked

LEMMA FitsCalm ==
  ASSUME NEW snap, NEW s, NEW t, Calm(s, t), Fits(snap, s)
  PROVE  Fits(snap, t)
BY DEF Calm, Fits

LEMMA ShownFits ==
  ASSUME NEW snap, NEW s, Shows(snap, s)
  PROVE  Fits(snap, s) /\ snap.receiving = s.receiving
BY DEF Shows, Fits

(* A page that may ask has no command on its way, and its view fits.         *)
LEMMA AtRest ==
  ASSUME SInv, Views, ~pending
  PROVE  /\ ~answer["panel"].ready /\ ~Working("panel") /\ ~Done
         /\ \A i \in 1..Len(jobs) : jobs[i].from # "panel" /\ jobs[i].name \notin {"send", "remember"}
         /\ ~stale => Fits(shown, session)
<1>1. "panel" \in Clients /\ ~Outstanding("panel")
  BY DEF Clients, Outstanding
<1>2. ~answer["panel"].ready /\ ~Working("panel")
  BY <1>1 DEF SInv, WInv, Single
<1>3. \A i \in 1..Len(jobs) : jobs[i].from # "panel" /\ KnownJob(jobs[i])
  BY <1>1 DEF SInv, WInv, Single
<1>4. \A i \in 1..Len(jobs) : jobs[i].name \notin {"send", "remember"}
  BY <1>3 DEF KnownJob, Clients
<1> QED BY <1>2, <1>3, <1>4 DEF Views, Done

-----------------------------------------------------------------------------
(* The worker's steps. *)

LEMMA WorkerViews ==
  ASSUME SInv, Views, Sorted, UNCHANGED panelVars
  PROVE  Views'
<1>1. {"panel", "refresh"} \subseteq Clients
  BY DEF Clients
<1>2. UNCHANGED <<shown, pending, refreshPending, dialog, overtaken, stale, confirmed>>
  BY DEF panelVars
<1>3. ASSUME Ends("panel") PROVE pending /\ answer'["refresh"] = answer["refresh"] /\ ~Done
  BY <1>1, <1>2, <1>3, EndSingle DEF SInv, Outstanding, Done
<1>4. CASE Told("panel")
  <2>1. answer'["panel"].ready /\ answer'["panel"].ok /\ Shows(answer'["panel"].snapshot, session')
    BY <1>1, <1>2, <1>4, EndSingle DEF SInv, Told
  <2>2. pending
    BY <1>3, <1>4 DEF Told
  <2> QED BY <1>2, <2>1, <2>2, ShownFits DEF Views, Done
<1>5. CASE Calm(session, session') /\ (Silent \/ Refused("panel"))
  <2>1. answer'["refresh"] = answer["refresh"] /\ (Done' <=> Done)
    BY <1>3, <1>5 DEF Silent, Refused, Done
  <2>2. Done => answer'["panel"] = answer["panel"]
    BY <1>3, <1>5 DEF Silent, Refused
  <2>3. FreshRefresh' <=> FreshRefresh
    BY <1>2, <2>1 DEF FreshRefresh
  <2>4. ~stale' /\ ~Done' => Fits(shown', session')
    BY <1>2, <1>5, <2>1, FitsCalm DEF Views
  <2>5. Done' => Fits(answer'["panel"].snapshot, session')
    BY <1>5, <2>1, <2>2, FitsCalm DEF Views
  <2>6. FreshRefresh' /\ ~Done' =>
          /\ Fits(answer'["refresh"].snapshot, session')
          /\ ~stale' /\ ~shown'.receiving => ~answer'["refresh"].snapshot.receiving
    BY <1>2, <1>5, <2>1, <2>3, FitsCalm DEF Views
  <2>7. dialog' # NoDialog /\ ~confirmed'.stale =>
          /\ ~session'.receiving
          /\ ~stale' => ~shown'.receiving
          /\ FreshRefresh' => ~answer'["refresh"].snapshot.receiving
    BY <1>2, <1>5, <2>1, <2>3 DEF Views, Calm
  <2> QED BY <1>2, <2>4, <2>5, <2>6, <2>7 DEF Views
<1>6. CASE Calm(session, session') /\ Told("refresh")
  <2>1. /\ answer'["panel"] = answer["panel"]
        /\ Shows(answer'["refresh"].snapshot, session')
    BY <1>1, <1>2, <1>6, EndSingle DEF SInv, Told
  <2>2. Done' <=> Done
    BY <2>1 DEF Done
  <2>3. /\ Fits(answer'["refresh"].snapshot, session')
        /\ answer'["refresh"].snapshot.receiving = session'.receiving
    BY <2>1, ShownFits
  <2>4. ~stale' /\ ~Done' => Fits(shown', session')
    BY <1>2, <1>6, <2>2, FitsCalm DEF Views
  <2>5. Done' => Fits(answer'["panel"].snapshot, session')
    BY <1>6, <2>1, <2>2, FitsCalm DEF Views
  <2>6. ~stale' /\ ~Done' /\ ~shown'.receiving => ~answer'["refresh"].snapshot.receiving
    BY <2>3, <2>4 DEF Fits
  <2>7. dialog' # NoDialog /\ ~confirmed'.stale =>
          /\ ~session'.receiving
          /\ ~stale' => ~shown'.receiving
          /\ ~answer'["refresh"].snapshot.receiving
    BY <1>2, <1>6, <2>3 DEF Views, Calm
  <2> QED BY <1>2, <2>3, <2>4, <2>5, <2>6, <2>7 DEF Views
<1> QED BY <1>4, <1>5, <1>6 DEF Sorted, Tame

LEMMA WorkerAsked ==
  ASSUME SInv, Asked, Sorted, UNCHANGED panelVars
  PROVE  Asked'
<1>1. "panel" \in Clients /\ confirmed' = confirmed /\ UNCHANGED <<pending, refreshPending>>
  BY DEF Clients, panelVars
<1>2. CASE Told("panel")
  <2>1. SInv' /\ answer'["panel"].ready
    BY <1>1, <1>2, SortedSingle, EndSingle DEF SInv, Told
  <2>2. \A i \in 1..Len(jobs') : KnownJob(jobs'[i]) /\ jobs'[i].from # "panel"
    BY <1>1, <2>1 DEF SInv, WInv, Single, KnownJob
  <2>3. \A i \in 1..Len(jobs') : jobs'[i].name \notin {"send", "remember"}
    BY <2>2 DEF KnownJob, Clients
  <2> QED BY <2>3 DEF Asked, AskedOf
<1>3. CASE Tame
  <2>1. Takes \/ jobs' = jobs
    BY <1>3 DEF Tame, Silent, Refused, Told, Ends
  <2>2. \A i \in 1..Len(jobs') : \E k \in 1..Len(jobs) : jobs'[i] = jobs[k]
    BY <2>1, QueueSingle DEF SInv
  <2>3. Calm(session, session')
    BY <1>3 DEF Tame
  <2>4. ASSUME NEW i \in 1..Len(jobs') PROVE AskedOf(jobs[i])'
    <3>1. PICK k \in 1..Len(jobs) : jobs'[i] = jobs[k]
      BY <2>2
    <3>2. AskedOf(jobs[k])
      BY DEF Asked
    <3> QED BY <1>1, <2>3, <3>1, <3>2 DEF AskedOf, Calm
  <2> QED BY <2>4 DEF Asked
<1> QED BY <1>2, <1>3 DEF Sorted

-----------------------------------------------------------------------------
(* The page's steps, and the window's. *)

(* A command is added to the queue. *)
LEMMA AskedMore ==
  ASSUME WInv, NEW j, jobs' = Append(jobs, j), AskedOf(j)',
         \A i \in 1..Len(jobs) : AskedOf(jobs[i]) => AskedOf(jobs[i])',
         Asked
  PROVE  Asked'
<1>1. /\ Len(jobs) \in Nat
      /\ Len(jobs') = Len(jobs) + 1
      /\ \A i \in 1..Len(jobs) : jobs'[i] = jobs[i]
      /\ jobs'[Len(jobs) + 1] = j
  BY QueueAppend DEF WInv, Records
<1>2. ASSUME NEW i \in 1..Len(jobs')
      PROVE  AskedOf(jobs[i])'
  <2>1. i \in 1..Len(jobs) \/ i = Len(jobs) + 1
    BY <1>1
  <2>2. CASE i \in 1..Len(jobs)
    <3>1. jobs'[i] = jobs[i]
      BY <1>1, <2>2
    <3> QED BY <2>2, <3>1 DEF Asked, AskedOf
  <2>3. CASE i = Len(jobs) + 1
    <3>1. jobs'[i] = j
      BY <1>1, <2>3
    <3> QED BY <3>1 DEF AskedOf
  <2> QED BY <2>1, <2>2, <2>3
<1> QED BY <1>2 DEF Asked

(* The page may post a command while it waits for none. *)
LEMMA PagePosts ==
  ASSUME SInv, Views, ~pending, NEW name \in PageCommands, NEW arg, Post(name, arg),
         name \in {"load", "handoff"} => IsSeq(arg),
         UNCHANGED <<session, work, answer, refreshPending>>
  PROVE  SInv'
<1> DEFINE j == Job(name, "panel", arg)
<1>1. j.name = name /\ j.from = "panel" /\ j.arg = arg
  BY DEF Job
<1>2. KnownJob(j)
  BY <1>1 DEF KnownJob, PageCommands, Clients
<1>3. jobs' = Append(jobs, j) /\ pending'
  BY DEF Post
<1> HIDE DEF j
<1>4. Posts("panel", j)
  BY <1>1, <1>2, <1>3, AtRest DEF Posts, Outstanding, Clients
<1> QED BY <1>4, PostSingle DEF SInv, Sound, Good, IsSession, Matched

LEMMA ClickViews ==
  ASSUME SInv, Views, Asked, UserTurn, dialog = NoDialog, ~pending,
         NEW name \in PageCommands \ {"send", "remember"}, NEW arg, Post(name, arg),
         name \in {"load", "handoff"} => IsSeq(arg),
         UNCHANGED <<dialog, confirmed>>
  PROVE  SInv' /\ Views' /\ Asked'
<1>1. UNCHANGED <<session, work, answer, shown, refreshPending, overtaken, stale>>
  BY DEF UserTurn
<1>2. SInv'
  BY <1>1, PagePosts
<1>3. Views'
  BY <1>1 DEF Views, Done, FreshRefresh
<1>4. jobs' = Append(jobs, Job(name, "panel", arg)) /\ Job(name, "panel", arg).name = name
  BY DEF Post, Job
<1>5. Asked'
  BY <1>1, <1>4, AskedMore DEF SInv, AskedOf
<1> QED BY <1>2, <1>3, <1>5

LEMMA RememberViews ==
  ASSUME SInv, Views, Asked, ClickRemember
  PROVE  SInv' /\ Views' /\ Asked'
<1> DEFINE j == Job("remember", "panel", None)
<1>1. /\ UNCHANGED <<session, work, answer, shown, refreshPending, overtaken, stale, dialog>>
      /\ ~pending /\ dialog = NoDialog /\ Post("remember", None)
      /\ shown.match.overridden # None
      /\ confirmed'.stale = stale /\ confirmed'.profile = shown.match.overridden
  BY DEF ClickRemember, UserTurn, Showing
<1>2. SInv'
  <2>1. "remember" \in PageCommands
    BY DEF PageCommands
  <2> QED BY <1>1, <2>1, PagePosts
<1>3. Views'
  BY <1>1 DEF Views, Done, FreshRefresh
<1>4. /\ ~stale => session.match.overridden = shown.match.overridden
      /\ \A i \in 1..Len(jobs) : jobs[i].name \notin {"send", "remember"}
  BY <1>1, AtRest DEF Fits
<1>5. jobs' = Append(jobs, j) /\ j.name = "remember"
  BY <1>1 DEF Post, Job
<1> HIDE DEF j
<1>6. AskedOf(j)'
  BY <1>1, <1>4, <1>5 DEF AskedOf
<1>7. Asked'
  BY <1>4, <1>5, <1>6, AskedMore DEF SInv, AskedOf
<1> QED BY <1>2, <1>3, <1>7

LEMMA ClickSendViews ==
  ASSUME SInv, Views, Asked, ClickSend
  PROVE  SInv' /\ Views' /\ Asked'
<1>1. /\ UNCHANGED <<session, work, answer, shown, refreshPending, overtaken, stale, jobs, pending>>
      /\ ~pending /\ ~shown.receiving
      /\ confirmed'.stale = stale
  BY DEF ClickSend, UserTurn, NothingConfirmed
<1>2. SInv'
  BY <1>1, LeaveSingle DEF Leaves, SInv, Sound, Good, IsSession, Matched
<1>3. /\ ~Done
      /\ ~stale => Fits(shown, session)
      /\ \A i \in 1..Len(jobs) : jobs[i].name \notin {"send", "remember"}
  BY <1>1, AtRest
<1>4. ~stale => /\ ~session.receiving
                /\ FreshRefresh => ~answer["refresh"].snapshot.receiving
  BY <1>1, <1>3 DEF Views, Fits
<1>5. Views'
  BY <1>1, <1>3, <1>4 DEF Views, Done, FreshRefresh
<1>6. Asked'
  BY <1>1, <1>3 DEF Asked, AskedOf
<1> QED BY <1>2, <1>5, <1>6

LEMMA ConfirmSendViews ==
  ASSUME SInv, Views, Asked, ConfirmSend
  PROVE  SInv' /\ Views' /\ Asked'
<1>0. PICK j : j = Job("send", "panel", dialog)
  OBVIOUS
<1>1. /\ UNCHANGED <<session, work, answer, shown, refreshPending, overtaken, stale>>
      /\ dialog # NoDialog /\ dialog' = NoDialog /\ Post("send", dialog)
  BY DEF ConfirmSend, Answers
<1>2. /\ confirmed'.route = dialog /\ confirmed'.doc = shown.doc
      /\ ~confirmed'.stale => ~stale /\ ~confirmed.stale
  BY DEF ConfirmSend, Showing
<1>3. ~pending
  BY <1>1 DEF Views
<1>4. SInv'
  <2>1. "send" \in PageCommands
    BY DEF PageCommands
  <2> QED BY <1>1, <1>3, <2>1, PagePosts
<1>5. Views'
  BY <1>1 DEF Views, Done, FreshRefresh
<1>6. /\ ~confirmed'.stale => session.doc = shown.doc /\ ~session.receiving
      /\ \A i \in 1..Len(jobs) : jobs[i].name \notin {"send", "remember"}
  BY <1>1, <1>2, <1>3, AtRest DEF Views, Fits
<1>7. jobs' = Append(jobs, j) /\ j.name = "send" /\ j.arg = dialog
  BY <1>0, <1>1 DEF Post, Job
<1>8. AskedOf(j)'
  BY <1>1, <1>2, <1>6, <1>7 DEF AskedOf
<1>9. Asked'
  BY <1>6, <1>7, <1>8, AskedMore DEF SInv, AskedOf
<1> QED BY <1>4, <1>5, <1>9

LEMMA UserViews ==
  ASSUME SInv, Views, Asked, User
  PROVE  SInv' /\ Views' /\ Asked'
<1>1. ASSUME NEW name \in PageCommands \ {"send", "remember"}, NEW enabled, NEW arg,
             Click(name, enabled, arg), name \in {"load", "handoff"} => IsSeq(arg)
      PROVE  SInv' /\ Views' /\ Asked'
  BY <1>1, ClickViews DEF Click
<1>2. \A doc \in Files : IsSeq(doc)
  BY DeskAssumption DEF IsSeq
<1>3. {"load", "handoff", "receive", "finish", "cancel", "save", "clear", "profile"}
        \subseteq PageCommands \ {"send", "remember"}
  BY DEF PageCommands
<1>4. CASE \E doc \in Files : \/ Click("load", ~shown.receiving /\ ~Active, doc)
                              \/ Click("handoff", AllComplete(doc), doc)
  BY <1>1, <1>2, <1>3, <1>4
<1>5. CASE \/ Click("receive", ~shown.receiving /\ ~Active, None)
           \/ Click("finish", shown.receiving /\ ~Active, None)
           \/ Click("cancel", Active, None)
           \/ Click("save", ~shown.receiving /\ shown.source = "received"
                              /\ AllComplete(shown.doc) /\ ~Active, None)
           \/ Click("clear", ~shown.receiving /\ ~Active, None)
           \/ \E p \in Profiles : Click("profile", TRUE, p)
  BY <1>1, <1>3, <1>5
<1>6. CASE DeclineSend
  <2>1. UNCHANGED <<session, work, answer, shown, refreshPending, overtaken, stale, jobs, pending,
                    confirmed>> /\ dialog' = NoDialog
    BY <1>6 DEF DeclineSend, Answers
  <2>2. SInv'
    BY <2>1, LeaveSingle DEF Leaves, SInv, Sound, Good, IsSession, Matched
  <2> QED BY <2>1, <2>2 DEF Views, Done, FreshRefresh, Asked, AskedOf
<1> QED BY <1>4, <1>5, <1>6, RememberViews, ClickSendViews, ConfirmSendViews DEF User

LEMMA WindowViews ==
  ASSUME SInv, Views, Asked, Window
  PROVE  SInv' /\ Views' /\ Asked'
<1>1. UNCHANGED <<session, work, answer, panelVars>>
  BY DEF Window, Request, LoseDevice, World
<1>2. Views'
  BY <1>1 DEF panelVars, Views, Done, FreshRefresh
<1>3. CASE jobs' = jobs
  <2>1. SInv'
    BY <1>1, <1>3, LeaveSingle DEF Leaves, panelVars, SInv, Sound, Good, IsSession, Matched
  <2> QED BY <1>1, <1>2, <1>3, <2>1 DEF panelVars, Asked, AskedOf
<1>4. ASSUME NEW name \in {"connect", "disconnect", "select", "probe"}, NEW arg, Request(name, arg)
      PROVE  SInv' /\ Asked'
  <2> DEFINE j == Job(name, "window", arg)
  <2>1. jobs' = Append(jobs, j)
    BY <1>4 DEF Request
  <2>2. j.name = name /\ j.from = "window"
    BY DEF Job
  <2> HIDE DEF j
  <2>3. KnownJob(j)
    BY <2>2 DEF KnownJob
  <2>4. Posts("window", j)
    BY <1>1, <2>1, <2>2, <2>3 DEF Posts, Clients, Outstanding, panelVars
  <2>5. SInv'
    BY <1>1, <2>4, PostSingle DEF SInv, Sound, Good, IsSession, Matched
  <2>6. AskedOf(j)'
    BY <2>2 DEF AskedOf
  <2>7. Asked'
    BY <1>1, <2>1, <2>6, AskedMore DEF SInv, AskedOf, panelVars
  <2> QED BY <2>5, <2>7
<1>5. CASE LoseDevice
  BY <1>2, <1>3, <1>5 DEF LoseDevice
<1>6. CASE \E name \in {"disconnect", "select", "probe"} : Request(name, None)
  BY <1>2, <1>4, <1>6
<1>7. CASE \E c \in Connections : Request("connect", c)
  BY <1>2, <1>4, <1>7
<1> QED BY <1>5, <1>6, <1>7 DEF Window

LEMMA PollViews ==
  ASSUME SInv, Views, Asked, Poll
  PROVE  SInv' /\ Views' /\ Asked'
<1>1. UNCHANGED <<session, work, dialog, confirmed>>
  BY DEF Poll, PollRefresh, PollIdle, PollWaiting, PollAnswer, Polls
<1>2. {"panel", "refresh"} \subseteq Clients /\ ~NoAnswer.ready
  BY DEF Clients, NoAnswer
<1>3. ASSUME WInv' PROVE SInv'
  BY <1>1, <1>3 DEF SInv, Sound, Good, IsSession, Matched
<1>5. ASSUME Leaves, UNCHANGED <<shown, stale, overtaken>>
      PROVE  SInv' /\ Views' /\ Asked'
  <2>1. SInv'
    BY <1>3, <1>5, LeaveSingle DEF SInv
  <2> QED BY <1>1, <1>5, <2>1 DEF Leaves, Views, Done, FreshRefresh, Asked, AskedOf
<1>6. CASE PollRefresh /\ ~RefreshReady
  BY <1>5, <1>6 DEF PollRefresh, Polls, Leaves
<1>7. CASE PollRefresh /\ RefreshReady
  <2>1. /\ UNCHANGED <<jobs, pending>>
        /\ answer["refresh"].ready /\ Read("refresh")
        /\ \/ pending /\ UNCHANGED <<shown, stale>>
           \/ ~pending /\ shown' = answer["refresh"].snapshot /\ stale' = overtaken
    BY <1>7 DEF PollRefresh, RefreshReady
  <2>2. Reads("refresh")
    BY <1>1, <2>1 DEF Reads, Outstanding, Clients
  <2>3. WInv' /\ answer'["refresh"] = NoAnswer /\ answer'["panel"] = answer["panel"]
    BY <1>2, <2>2, ReadSingle DEF SInv
  <2>4. ~FreshRefresh' /\ (Done' <=> Done)
    BY <1>2, <2>3 DEF FreshRefresh, Done
  <2>5. CASE pending /\ UNCHANGED <<shown, stale>>
    <3>1. Views'
      BY <1>1, <2>1, <2>3, <2>4, <2>5 DEF Views
    <3> QED BY <1>1, <1>3, <2>1, <2>3, <3>1 DEF Asked, AskedOf
  <2>6. CASE ~pending /\ shown' = answer["refresh"].snapshot /\ stale' = overtaken
    <3>1. ~Done
      BY <2>6, AtRest
    <3>2. ~stale' => /\ Fits(shown', session')
                     /\ dialog # NoDialog /\ ~confirmed.stale => ~shown'.receiving
      BY <1>1, <2>1, <2>6, <3>1 DEF Views, FreshRefresh
    <3>3. Views'
      BY <1>1, <2>1, <2>4, <2>6, <3>1, <3>2 DEF Views
    <3> QED BY <1>1, <1>3, <2>1, <2>3, <3>3 DEF Asked, AskedOf
  <2> QED BY <2>1, <2>5, <2>6
<1>8. CASE PollIdle
  <2> DEFINE j == Job("snapshot", "refresh", None)
  <2>1. /\ UNCHANGED <<answer, pending, shown, overtaken, stale>>
        /\ \/ ~refreshPending /\ refreshPending' /\ jobs' = Append(jobs, j)
           \/ UNCHANGED <<jobs, refreshPending>>
    BY <1>8 DEF PollIdle
  <2>2. j.name = "snapshot" /\ j.from = "refresh"
    BY DEF Job
  <2> HIDE DEF j
  <2>3. CASE ~refreshPending /\ refreshPending' /\ jobs' = Append(jobs, j)
    <3>1. KnownJob(j)
      BY <2>2 DEF KnownJob, Clients
    <3>2. /\ \A i \in 1..Len(jobs) : jobs[i].from # "refresh"
          /\ ~Working("refresh") /\ ~answer["refresh"].ready
      BY <1>2, <2>3 DEF SInv, WInv, Single, Outstanding
    <3>3. Posts("refresh", j)
      BY <1>1, <2>1, <2>2, <2>3, <3>1, <3>2 DEF Posts, Outstanding, Clients
    <3>4. WInv'
      BY <3>3, PostSingle DEF SInv
    <3>5. AskedOf(j)'
      BY <2>2 DEF AskedOf
    <3>6. Asked'
      BY <1>1, <2>3, <3>5, AskedMore DEF SInv, AskedOf
    <3>7. Views'
      BY <1>1, <2>1 DEF Views, Done, FreshRefresh
    <3> QED BY <1>3, <3>4, <3>6, <3>7
  <2>4. CASE UNCHANGED <<jobs, refreshPending>>
    BY <1>1, <1>5, <2>1, <2>4 DEF Leaves
  <2> QED BY <2>1, <2>3, <2>4
<1>9. CASE PollWaiting
  BY <1>5, <1>9 DEF PollWaiting, Polls, Leaves
<1>10. CASE PollAnswer
  <2>1. /\ UNCHANGED <<jobs, refreshPending>>
        /\ pending /\ ~pending' /\ answer["panel"].ready /\ Read("panel")
        /\ \/ /\ Done
              /\ shown' = answer["panel"].snapshot /\ ~stale' /\ overtaken' = refreshPending
           \/ ~Done /\ UNCHANGED <<shown, stale, overtaken>>
    BY <1>10 DEF PollAnswer, AnswerReady, Done
  <2>2. Reads("panel")
    BY <1>1, <2>1 DEF Reads, Outstanding, Clients
  <2>3. WInv' /\ answer'["panel"] = NoAnswer /\ answer'["refresh"] = answer["refresh"]
    BY <1>2, <2>2, ReadSingle DEF SInv
  <2>4. ~Done' /\ dialog' = NoDialog
    BY <1>1, <1>2, <2>1, <2>3 DEF Done, Views
  <2>5. answer["refresh"].ready => refreshPending
    BY <1>2 DEF SInv, WInv, Single, Outstanding
  <2>6. CASE Done /\ shown' = answer["panel"].snapshot /\ ~stale' /\ overtaken' = refreshPending
    <3>1. ~FreshRefresh'
      BY <2>3, <2>5, <2>6 DEF FreshRefresh
    <3>2. Fits(shown', session')
      BY <1>1, <2>6 DEF Views
    <3>3. Views'
      BY <2>4, <3>1, <3>2 DEF Views
    <3> QED BY <1>1, <1>3, <2>1, <2>3, <3>3 DEF Asked, AskedOf
  <2>7. CASE ~Done /\ UNCHANGED <<shown, stale, overtaken>>
    <3>1. Views'
      BY <1>1, <2>3, <2>4, <2>7 DEF Views, FreshRefresh
    <3> QED BY <1>1, <1>3, <2>1, <2>3, <3>1 DEF Asked, AskedOf
  <2> QED BY <2>1, <2>6, <2>7
<1> QED BY <1>6, <1>7, <1>8, <1>9, <1>10 DEF Poll

-----------------------------------------------------------------------------

LEMMA InitViews == Init => VInv
<1> SUFFICES ASSUME Init PROVE VInv
  OBVIOUS
<1>1. IInv /\ WInv
  BY InitIInv, InitSingle
<1>2. Sound(session)
  <2>1. session \in Start
    BY DEF Init
  <2>2. session.doc \in Seq(Frames) /\ (session.doc # <<>> => session.last = session.match.overridden)
    BY <2>1, DeskAssumption DEF SessionType
  <2> QED BY <1>1, <2>2 DEF Sound, IInv, IsSeq
<1>3. PICK before : shown = [Snapshot(session) EXCEPT !.tx = before]
  BY DEF Init
<1>4. shown.receiving = session.receiving /\ shown.doc = session.doc /\ shown.match = session.match
  BY <1>3 DEF Snapshot
<1>5. Fits(shown, session)
  BY <1>4 DEF Fits
<1>6. answer = [c \in Clients |-> NoAnswer]
  BY DEF Init
<1>7. ~answer["panel"].ready /\ ~answer["refresh"].ready
  BY <1>6 DEF Clients, NoAnswer
<1>8. Views
  BY <1>5, <1>7 DEF Init, Views, Done, FreshRefresh
<1>9. Asked
  BY DEF Init, Asked
<1> QED BY <1>1, <1>2, <1>8, <1>9 DEF VInv, SInv

LEMMA NextViews ==
  ASSUME VInv, [Next]_vars
  PROVE  VInv'
<1>1. IInv' /\ SInv /\ Views /\ Asked
  BY NextKeeps DEF VInv
<1>2. CASE (WorkerSteps \/ ConsumeEvent) /\ UNCHANGED panelVars
  <2>1. Sorted /\ UNCHANGED <<pending, refreshPending>>
    BY <1>1, <1>2, WorkerSorts DEF panelVars
  <2> QED BY <1>1, <1>2, <2>1, SortedSingle, WorkerViews, WorkerAsked DEF VInv
<1>3. CASE UNCHANGED <<session, jobs, work, answer, panelVars>>
  <2>1. SInv'
    BY <1>1, <1>3, LeaveSingle DEF Leaves, panelVars, SInv, Sound, Good, IsSession, Matched
  <2>2. Views' /\ Asked'
    BY <1>1, <1>3 DEF panelVars, Views, Done, FreshRefresh, Asked, AskedOf
  <2> QED BY <1>1, <2>1, <2>2 DEF VInv
<1>4. CASE User
  BY <1>1, <1>4, UserViews DEF VInv
<1>5. CASE Window
  BY <1>1, <1>5, WindowViews DEF VInv
<1>6. CASE Poll
  BY <1>1, <1>6, PollViews DEF VInv
<1>7. CASE Engine \/ UNCHANGED vars
  BY <1>3, <1>7 DEF Engine, vars, workerVars
<1> QED BY <1>2, <1>4, <1>5, <1>6, <1>7 DEF Next, Worker, Captured

LEMMA ViewsInvariance == Spec => []VInv
<1> QED BY InitViews, NextViews, PTL DEF Spec

(* A transfer becomes active only where start_raw_sysex_send() found the     *)
(* confirmed route open, and a choice is saved only by the command for it.   *)
LEMMA StepAsShown ==
  ASSUME VInv, Next
  PROVE  /\ phase # "active" /\ phase' = "active" =>
              /\ device.tx = confirmed.route
              /\ confirmed.stale \/ session.doc = confirmed.doc
         /\ session'.saved # session.saved =>
              confirmed.stale \/ session'.saved = confirmed.profile
<1>1. ASSUME phase # "active", phase' = "active"
      PROVE  device.tx = confirmed.route /\ (confirmed.stale \/ session.doc = confirmed.doc)
  <2>1. StartRawSend /\ Connected /\ link.tx = Argument
    BY <1>1 DEF Next, User, Click, ClickRemember, ClickSend, ConfirmSend, DeclineSend, Answers,
                UserTurn, Window, Request, LoseDevice, World, Poll, PollRefresh, PollIdle,
                PollWaiting, PollAnswer, Polls, Worker, WorkerSteps, Captured, ConsumeEvent,
                Engine, Accept, End, Reap, Destroyed, absVars, Perform, LoadSysex, SaveReceivedSysex,
                LoadSysexDocument, BeginSysexReceive, FinishSysexReceive, ClearSysex,
                SelectTemporaryProfile, RememberManualProfile, StartRawSend, CancelTransfer,
                SysexSnapshot, AnswerSnapshot, NoController, BeginStop, SelectFirst, ProbeBackends,
                EndStop, StopActivity, Connect, Unchanged
  <2>2. Takes /\ Head(jobs).name = "send"
    BY <2>1, CommandTakes DEF VInv, StartRawSend
  <2>3. AskedOf(Head(jobs))
    BY <2>2, Shortened DEF VInv, SInv, Asked
  <2>4. device.tx = link.tx
    BY <2>1 DEF VInv, IInv, Linked, Connected
  <2> QED BY <2>1, <2>2, <2>3, <2>4 DEF AskedOf, Argument
<1>2. ASSUME session'.saved # session.saved
      PROVE  confirmed.stale \/ session'.saved = confirmed.profile
  <2>1. WorkerSteps \/ ConsumeEvent
    BY <1>2 DEF Next, User, Click, ClickRemember, ClickSend, ConfirmSend, DeclineSend, Answers,
                UserTurn, Window, Request, LoseDevice, World, Poll, PollRefresh, PollIdle,
                PollWaiting, PollAnswer, Polls, Worker, Captured, Engine
  <2>2. Sorted
    BY <2>1, WorkerSorts DEF VInv
  <2>3. Remembers
    BY <1>2, <2>2 DEF Sorted, Tame, Calm
  <2>4. AskedOf(Head(jobs))
    BY <2>3, Shortened DEF Remembers, VInv, SInv, Asked
  <2>5. CASE session.match.overridden = confirmed.profile /\ confirmed.profile # None
    <3>1. NoResult.overridden = None
      BY DEF NoResult, Result
    <3>2. session.doc # <<>>
      BY <2>5, <3>1 DEF VInv, IInv, Good, Matched
    <3>3. session.last = session.match.overridden
      BY <3>2 DEF VInv, SInv, Sound
    <3> QED BY <2>3, <2>5, <3>3 DEF Remembers
  <2> QED BY <2>3, <2>4, <2>5 DEF AskedOf, Remembers
<1> QED BY <1>1, <1>2

(* For all documents, profiles, routes and connections, and any number of    *)
(* clicks, requests and lost devices: a Raw Send uses the route its          *)
(* confirmation named, and, unless an overtaken refresh was on the screen,   *)
(* sends the document that was shown, as Remember saves the profile that was *)
(* shown (start_raw_sysex_send(), remember_overridden_manual_profile()).     *)
THEOREM ActedAsShown == Spec => ActsAsShown
<1> DEFINE AsShown ==
      /\ phase # "active" /\ phase' = "active" =>
           /\ device.tx = confirmed.route
           /\ confirmed.stale \/ session.doc = confirmed.doc
      /\ session'.saved # session.saved =>
           confirmed.stale \/ session'.saved = confirmed.profile
<1>1. VInv /\ [Next]_vars => [AsShown]_vars
  BY StepAsShown
<1> QED BY <1>1, ViewsInvariance, PTL DEF Spec, ActsAsShown

=============================================================================
